---- MODULE Spec2Model ----
(***************************************************************************)
(* State-machine model of cwbriscoe/goweb: the limiter package (visitor    *)
(* token buckets, bot verification, shared registries, trim daemon) and    *)
(* the auth package's route guard (AuthHandler / revalidate).              *)
(*                                                                         *)
(* Time is counted in ticks of one hour (time.Hour == 1).                  *)
(* Sleeps shorter than one tick (the 2 s DNS back-off, the 10 min daemon   *)
(* period) take no tick: the step after them may happen at any time.       *)
(*                                                                         *)
(* Every time-valued field is stored as its distance from the present      *)
(* (time.Now()), cut off where no operation can tell the difference:       *)
(*   visitor.lastSeen                      now - field  (capped)           *)
(*   rate.Limiter.lastEvent, reservation.timeToAct, wake-up times          *)
(*                                         field - now  (floored)          *)
(* A rate.Limiter's tokens are kept advanced to the present, which is what *)
(* the library's advance() computes from (tokens, last) at every use.      *)
(* The step Tick moves the present forward by one tick.                    *)
(* Visitor objects no map entry or goroutine refers to are reclaimed, as   *)
(* the garbage collector does.                                             *)
(***************************************************************************)
EXTENDS Integers, Sequences, FiniteSets, TLC

\* ------------------------------------------------------------------ bounds
MaxReqs == 2
MaxLimiters == 2
MaxVisitors == 2
MaxRoutines == 1
MaxSeq == 4
MaxDebt == 2
MaxCount == 1
MaxRuns == 3
MaxCrashes == 2

\* --------------------------------------------------------------- constants
undefined == 0
user == 1
goodBot == 2
badBot == 3

Hour == 1

Min(a, b) == IF a < b THEN a ELSE b

Max(a, b) == IF a > b THEN a ELSE b

\* ------------------------------------------------------------------ inputs
\* Source addresses of requests; "" is the empty address limit() refuses.
IPs == {"10.0.0.1"}

\* An address no request comes from, which a forward lookup may return.
OtherIP == "10.0.0.9"

\* User-Agent header values, as character sequences.
UAs == <<
    <<"M","o","z","i","l","l","a">>,
    <<"G","o","o","g","l","e","B","o","t">> >>

\* Host names a reverse lookup may return: a crawler's, a stranger's, and one
\* that holds a crawler's domain in front of its own.
Hosts == <<
    <<"c","1",".","g","o","o","g","l","e","b","o","t",".","c","o","m",".">>,
    <<"e","x","a","m","p","l","e",".","o","r","g",".">>,
    <<"c","1",".","g","o","o","g","l","e","b","o","t",".","c","o","m",".",
      "e","v","i","l",".","o","r","g",".">> >>

\* LimitSettings values handed to NewLimiter: one with every rate given and
\* no global limiter, one with a global limiter and the good-bot rate left unset.
Settings == <<
    [Name |-> "api",
     GlobalRate |-> [Interval |-> 0, Burst |-> 0, MaxDelayed |-> 0],
     GoodBotRate |-> [Interval |-> 1, Burst |-> 2, MaxDelayed |-> 1],
     UserRate |-> [Interval |-> 1, Burst |-> 1, MaxDelayed |-> 1]],
    [Name |-> "auth",
     GlobalRate |-> [Interval |-> 1, Burst |-> 2, MaxDelayed |-> 0],
     GoodBotRate |-> [Interval |-> 0, Burst |-> 0, MaxDelayed |-> 0],
     UserRate |-> [Interval |-> 1, Burst |-> 1, MaxDelayed |-> 1]] >>

\* --------------------------------------------------------- botcheck tables
validDomains == <<
    <<".","c","r","a","w","l",".","b","a","i","d","u",".","c","o","m",".">>,
    <<".","c","r","a","w","l",".","b","a","i","d","u",".","j","p",".">>,
    <<".","c","r","a","w","l",".","y","a","h","o","o",".","n","e","t",".">>,
    <<".","g","o","o","g","l","e",".","c","o","m",".">>,
    <<".","g","o","o","g","l","e","b","o","t",".","c","o","m",".">>,
    <<".","n","e","e","v","a","b","o","t",".","c","o","m",".">>,
    <<".","q","w","a","n","t",".","c","o","m",".">>,
    <<".","s","e","a","r","c","h",".","m","s","n",".","c","o","m",".">>,
    <<".","y","a","n","d","e","x",".","c","o","m",".">>,
    <<".","y","a","n","d","e","x",".","n","e","t",".">>,
    <<".","y","a","n","d","e","x",".","r","u",".">>,
    <<".","b","o","t",".","s","e","m","r","u","s","h",".","c","o","m",".">> >>

uaStrings == <<
    [name |-> "Baidu", text |-> <<"b","a","i","d","u","s","p","i","d","e","r">>],
    [name |-> "Bing", text |-> <<"b","i","n","g","b","o","t">>],
    [name |-> "Google", text |-> <<"g","o","o","g","l","e","b","o","t">>],
    [name |-> "MSN", text |-> <<"m","s","n","b","o","t">>],
    [name |-> "Neeva", text |-> <<"n","e","e","v","a","b","o","t">>],
    [name |-> "Qwantify", text |-> <<"q","w","a","n","t","i","f","y">>],
    [name |-> "Yahoo", text |-> <<"y","a","h","o","o","!">>],
    [name |-> "Yandex", text |-> <<"y","a","n","d","e","x","b","o","t">>],
    [name |-> "Semrush", text |-> <<"s","e","m","r","u","s","h","b","o","t">>] >>

\* strings.ToLower on one character (ASCII letters).
LowerOf == [c \in {"A","B","C","D","E","F","G","H","I","J","K","L","M","N","O","P",
                   "Q","R","S","T","U","V","W","X","Y","Z"} |->
    CASE c = "A" -> "a" [] c = "B" -> "b" [] c = "C" -> "c" [] c = "D" -> "d"
      [] c = "E" -> "e" [] c = "F" -> "f" [] c = "G" -> "g" [] c = "H" -> "h"
      [] c = "I" -> "i" [] c = "J" -> "j" [] c = "K" -> "k" [] c = "L" -> "l"
      [] c = "M" -> "m" [] c = "N" -> "n" [] c = "O" -> "o" [] c = "P" -> "p"
      [] c = "Q" -> "q" [] c = "R" -> "r" [] c = "S" -> "s" [] c = "T" -> "t"
      [] c = "U" -> "u" [] c = "V" -> "v" [] c = "W" -> "w" [] c = "X" -> "x"
      [] c = "Y" -> "y" [] c = "Z" -> "z"]

ToLower(s) == [i \in 1..Len(s) |-> IF s[i] \in DOMAIN LowerOf THEN LowerOf[s[i]] ELSE s[i]]

\* strings.Contains
Contains(s, sub) ==
    \E i \in 1..(Len(s) - Len(sub) + 1) : SubSeq(s, i, i + Len(sub) - 1) = sub

\* checkUserAgent: the name of the first signature the lowered ua contains,
\* "" when there is none.
checkUserAgent(ua) ==
    LET ual == ToLower(ua)
        hits == {k \in 1..Len(uaStrings) : Contains(ual, uaStrings[k].text)}
    IN IF hits = {} THEN ""
       ELSE uaStrings[CHOOSE k \in hits : \A j \in hits : k <= j].name

\* checkHostName
checkHostName(host) == \E k \in 1..Len(validDomains) : Contains(host, validDomains[k])

\* ------------------------------------------------- golang.org/x/time/rate
\* A variant of NewRateLimiter whose bucket starts empty.
NewRateLimiterEmpty(interval, burst) ==
    [limit |-> Max(interval, 0), burst |-> burst, tokens |-> 0, lastEvent |-> 0]

\* A rate.Limiter. tokens is kept in units of 1/limit of a token (one token
\* is worth `limit` ticks), which keeps the library's arithmetic integral.
\* limit = 0 stands for rate.Inf (rate.Every of a non-positive interval).
NewRateLimiter(interval, burst) ==
    [limit |-> Max(interval, 0), burst |-> burst, tokens |-> burst * Max(interval, 0),
     lastEvent |-> 0]

\* Limiter.advance over one tick.
advance(lim) ==
    IF lim.limit = 0 THEN lim
    ELSE [lim EXCEPT !.tokens = Min(lim.burst * lim.limit, @ + 1),
                     !.lastEvent = Max(@ - 1, 0)]

\* Limiter.Reserve now: the limiter afterwards and the time to act.
Reserve(lim) ==
    IF lim.limit = 0 THEN [lim |-> lim, timeToAct |-> 0]
    ELSE LET tokens == lim.tokens - lim.limit
             wait == IF tokens < 0 THEN -tokens ELSE 0
         IN [lim |-> [lim EXCEPT !.tokens = tokens, !.lastEvent = wait],
             timeToAct |-> wait]

\* Reservation.Cancel now, of a reservation of one token due at timeToAct:
\* nothing is restored when the time to act has passed, and the tokens
\* reserved after this reservation are not restored.
Cancel(lim, timeToAct) ==
    IF lim.limit = 0 \/ timeToAct < 0 THEN lim
    ELSE LET restoreTokens == lim.limit - (lim.lastEvent - timeToAct)
         IN IF restoreTokens <= 0 THEN lim
            ELSE LET tokens == Min(lim.burst * lim.limit, lim.tokens + restoreTokens)
                     prevEvent == timeToAct - lim.limit
                 IN [lim EXCEPT !.tokens = tokens,
                        !.lastEvent = IF timeToAct = lim.lastEvent /\ prevEvent >= 0
                                      THEN prevEvent ELSE lim.lastEvent]

\* ------------------------------------------------------------------- state
VARIABLES
    limiters,   \* every Limiter constructed, in construction order
    shareds,    \* every sharedResources object allocated; the package variable
                \* `shared` points at the last one
    objs,       \* the visitor objects on the heap; Limiter.visitors maps an
                \* ip to an index of objs
    routines,   \* the verification goroutines (botcheck.go routine)
    reqs,       \* the request goroutines inside Limiter.limit
    probe,      \* a verification goroutine watched on its own
    lookups,    \* the DNS lookups probe has made, per stage
    db,         \* the tables usr.auth and usr.sess
    pending,    \* the sessions whose detached timestamp update has not run yet
    http,       \* the request the auth package served last, and its response
    detached,   \* the goroutines signIn and signOutInternal started, not yet run
    pw,         \* one password taken through generate and then compare
    locks,      \* the limiter package's mutexes and the goroutines that take
                \* them, watched statement by statement
    jobs        \* the job manager: the tables job.entry, job.active and
                \* job.completed, the manager's position and the job goroutines

limVars == <<limiters, shareds, objs, routines, reqs>>

verifyVars == <<probe, lookups, locks, jobs>>

authVars == <<db, pending, http, detached, pw>>

allVars == <<limVars, verifyVars, authVars>>

Reqs == 1..MaxReqs

Nil == [nil |-> TRUE]

NoVisitor ==
    [name |-> "", limiter |-> NewRateLimiter(0, 0), vtype |-> undefined,
     lastSeen |-> 0, delayCount |-> 0, currDelays |-> 0, nres |-> 0]

NoRoutine ==
    [pc |-> "none", lim |-> 0, ip |-> "", name |-> "", host |-> 0, ip2 |-> "",
     retries |-> 0]

ReqInit ==
    [pc |-> "idle", lim |-> 0, ip |-> "", ua |-> 0, typ |-> undefined, name |-> "",
     vlim |-> 0, timeToAct |-> 0, delay |-> 0, vis |-> 0, curr |-> 0, maxDelayed |-> 0,
     err |-> "", wake |-> 0, ret |-> "", slept |-> FALSE, cancelled |-> FALSE]

\* the package variable `shared`: 0 is the nil pointer
shared == Len(shareds)

\* map helpers
Put(m, k, v) == [x \in DOMAIN m \cup {k} |-> IF x = k THEN v ELSE m[x]]

Restrict(m, keep) == [x \in keep |-> m[x]]

EmptyMap == [x \in {} |-> 0]

\* The heap after garbage collection: a visitor object stays while a
\* Limiter's map or a request goroutine refers to it.
Collect(o, ls, rq) ==
    LET refs == UNION {{ls[L].visitors[k] : k \in DOMAIN ls[L].visitors} : L \in 1..Len(ls)}
                  \cup {rq[r].vlim : r \in Reqs} \cup {rq[r].vis : r \in Reqs}
    IN [v \in 1..MaxVisitors |-> IF v \in refs THEN o[v] ELSE NoVisitor]

\* The slot a new visitor object is allocated in; 0 when the heap is full.
Alloc(o) ==
    LET free == {v \in 1..MaxVisitors : o[v] = NoVisitor}
    IN IF free = {} THEN 0 ELSE CHOOSE v \in free : \A w \in free : v <= w

\* The slot a new goroutine is started in; 0 when none is left.
Spawn(g) ==
    LET free == {k \in 1..MaxRoutines : g[k].pc = "none"}
    IN IF free = {} THEN 0 ELSE CHOOSE k \in free : \A j \in free : k <= j

\* ------------------------------------------------------------- limiter.go
Nanosecond == 0

\* NewLimiter's defaulting of the settings it was handed.
normalize(s) ==
    LET g == IF s.GlobalRate.Burst > 0 /\ s.GlobalRate.Interval = 0
             THEN [s.GlobalRate EXCEPT !.Interval = Nanosecond] ELSE s.GlobalRate
        b1 == IF s.GoodBotRate.Burst > 0 /\ s.GoodBotRate.Interval = 0
              THEN [s.GoodBotRate EXCEPT !.Interval = Nanosecond] ELSE s.GoodBotRate
        b2 == IF b1.Burst = 0 /\ b1.Interval = 0
              THEN [b1 EXCEPT !.Burst = s.UserRate.Burst, !.Interval = s.UserRate.Interval]
              ELSE b1
    IN [s EXCEPT !.GlobalRate = g, !.GoodBotRate = b2]

\* The Limiter object NewLimiter builds.
newLimiter(settings) ==
    LET vars == normalize(settings)
    IN [vars |-> vars,
        global |-> IF vars.GlobalRate.Burst > 0
                   THEN NewRateLimiter(vars.GlobalRate.Interval, vars.GlobalRate.Burst)
                   ELSE Nil,
        visitors |-> EmptyMap]

\* setupSharedResources: the sync.Once is a local variable, so every call
\* runs the initialiser: a new sharedResources object (empty registries, empty
\* limiter list, its own daemon) replaces the package variable, and then the
\* Limiter is appended to that object's list.
setupSharedResources(sh, r) ==
    LET once == [done |-> FALSE]
        fresh == [limiters |-> <<>>, gbots |-> EmptyMap, bbots |-> EmptyMap]
        sh1 == IF ~once.done THEN Append(sh, fresh) ELSE sh
    IN [sh1 EXCEPT ![Len(sh1)].limiters = Append(@, r)]

NewLimiter(settings) ==
    /\ Len(limiters) < MaxLimiters
    /\ settings.UserRate.Burst > 0
    /\ limiters' = Append(limiters, newLimiter(settings))
    /\ shareds' = setupSharedResources(shareds, Len(limiters) + 1)
    /\ UNCHANGED <<objs, routines, reqs, verifyVars, authVars>>

\* createVisitor's switch: the bucket parameters of a classification.
visitorRate(vars, typ) ==
    CASE typ = user -> [Interval |-> vars.UserRate.Interval, Burst |-> vars.UserRate.Burst]
      [] typ = goodBot -> [Interval |-> vars.GoodBotRate.Interval,
                           Burst |-> vars.GoodBotRate.Burst]
      [] OTHER -> [Interval |-> Hour, Burst |-> 1]

\* The visitor object createVisitor allocates (firstSeen, which nothing reads,
\* is left out). nres is history: the number of Reserve calls made on its
\* limiter in the instant of its creation; MaxSeq once time has passed.
newVisitor(vars, name, typ) ==
    [name |-> name,
     limiter |-> NewRateLimiter(visitorRate(vars, typ).Interval, visitorRate(vars, typ).Burst),
     vtype |-> typ, lastSeen |-> 0, delayCount |-> 0, currDelays |-> 0, nres |-> 0]

\* visitorDelay's switch: the ceiling of a classification.
maxDelayedOf(vars, vtype) ==
    CASE vtype = user -> vars.UserRate.MaxDelayed
      [] vtype = goodBot -> vars.GoodBotRate.MaxDelayed
      [] OTHER -> 1

\* A variant of tooMany that lets one more request sleep.
tooManyAbove(maxDelayed, curr) == maxDelayed > 0 /\ curr > maxDelayed + 1

\* visitorDelay's test: reject instead of sleeping.
tooMany(maxDelayed, curr) == maxDelayed > 0 /\ curr > maxDelayed

\* isGoodBot / isBadBot read the registries of the current shared object.
isGoodBot(ip) == ip \in DOMAIN shareds[shared].gbots

isBadBot(ip) == ip \in DOMAIN shareds[shared].bbots

\* limit(): entry, the empty-address test and getExistingLimiter
\* (getVisitorEntry under the Limiter's lock).
limit(r, L, ip, ua) ==
    /\ reqs[r].pc = "idle"
    /\ LET q == [ReqInit EXCEPT !.lim = L, !.ip = ip, !.ua = ua]
       IN IF ip = ""
          THEN /\ reqs' = [reqs EXCEPT ![r] = [q EXCEPT !.pc = "done", !.ua = 0,
                                                         !.ret = "empty ip"]]
               /\ UNCHANGED objs
          ELSE IF ip \in DOMAIN limiters[L].visitors
          THEN LET v == limiters[L].visitors[ip]
               IN /\ objs' = [objs EXCEPT ![v].lastSeen = 0]
                  /\ reqs' = [reqs EXCEPT ![r] = [q EXCEPT !.pc = "Reserve", !.vlim = v,
                                                            !.ua = 0]]
          ELSE /\ reqs' = [reqs EXCEPT ![r] = [q EXCEPT !.pc = "getNewLimiter"]]
               /\ UNCHANGED objs
    /\ UNCHANGED <<limiters, shareds, routines, verifyVars, authVars>>

\* A variant of getNewLimiter that does not consult the registries.
getNewLimiterUnread(r) ==
    /\ reqs[r].pc = "getNewLimiter"
    /\ reqs' = [reqs EXCEPT ![r].pc = "createVisitor", ![r].typ = user, ![r].name = ""]
    /\ UNCHANGED <<limiters, shareds, objs, routines, verifyVars, authVars>>

\* getNewLimiter: the registry reads of upgradeIfGoodBot and downgradeIfBadBot
\* (nothing writes the bad-bot registry, so its read is taken with the first).
getNewLimiter(r) ==
    /\ reqs[r].pc = "getNewLimiter"
    /\ LET ip == reqs[r].ip
       IN reqs' = [reqs EXCEPT
            ![r].pc = "createVisitor",
            ![r].typ = IF isGoodBot(ip) THEN goodBot ELSE IF isBadBot(ip) THEN badBot ELSE user,
            ![r].name = IF isGoodBot(ip) THEN shareds[shared].gbots[ip].name
                        ELSE IF isBadBot(ip) THEN shareds[shared].bbots[ip].name ELSE ""]
    /\ UNCHANGED <<limiters, shareds, objs, routines, verifyVars, authVars>>

\* The goroutine botLookupBackground starts; its first step, checkUserAgent,
\* touches no shared state and is taken with the start: the goroutine ends at
\* once when no signature matches.
routine(L, ip, ua) ==
    LET name == checkUserAgent(UAs[ua])
    IN IF name = "" THEN NoRoutine
       ELSE [NoRoutine EXCEPT !.pc = "getHostNameLoop", !.lim = L, !.ip = ip, !.name = name]

\* createVisitor (under the Limiter's lock) as called by getNewLimiter, and for
\* a user the start of the verification goroutine.
createVisitor(r) ==
    /\ reqs[r].pc = "createVisitor"
    /\ Alloc(objs) # 0
    /\ LET q == reqs[r]
           v == Alloc(objs)
           g == IF q.typ = user THEN routine(q.lim, q.ip, q.ua) ELSE NoRoutine
           ls == [limiters EXCEPT ![q.lim].visitors = Put(@, q.ip, v)]
           rq == [reqs EXCEPT ![r].pc = "Reserve", ![r].vlim = v, ![r].ua = 0,
                              ![r].typ = undefined, ![r].name = ""]
       IN /\ g # NoRoutine => Spawn(routines) # 0
          /\ limiters' = ls
          /\ reqs' = rq
          /\ objs' = Collect([objs EXCEPT ![v] = newVisitor(limiters[q.lim].vars, q.name, q.typ)],
                             ls, rq)
          /\ routines' = IF g = NoRoutine THEN routines
                         ELSE [routines EXCEPT ![Spawn(routines)] = g]
    /\ UNCHANGED <<shareds, verifyVars, authVars>>

\* limit() after the per-visitor stage: with no global limiter it returns nil.
afterVisitor(L) == IF limiters[L].global = Nil THEN "done" ELSE "global"

\* limit(): limiter.Reserve() and reservation.Delay() on the visitor's bucket.
ReserveStep(r) ==
    /\ reqs[r].pc = "Reserve"
    /\ LET q == reqs[r]
           res == Reserve(objs[q.vlim].limiter)
           delay == Max(res.timeToAct, 0)
           rq == [reqs EXCEPT ![r].timeToAct = IF delay > 0 THEN res.timeToAct ELSE 0,
                              ![r].delay = delay,
                              ![r].vlim = IF delay > 0 THEN q.vlim ELSE 0,
                              ![r].pc = IF delay > 0 THEN "visitorDelay"
                                        ELSE afterVisitor(q.lim)]
       IN /\ res.lim.tokens >= -(MaxDebt * res.lim.limit)
          /\ reqs' = rq
          /\ objs' = Collect([objs EXCEPT ![q.vlim].limiter = res.lim,
                                          ![q.vlim].nres = Min(@ + 1, MaxSeq)],
                             limiters, rq)
    /\ UNCHANGED <<limiters, shareds, routines, verifyVars, authVars>>

\* visitorDelay: getVisitorEntry under the Limiter's lock; a missing entry is
\* logged and nil returned, and limit() goes on to the global limiter.
visitorDelay(r) ==
    /\ reqs[r].pc = "visitorDelay"
    /\ LET q == reqs[r]
       IN IF q.ip \in DOMAIN limiters[q.lim].visitors
          THEN LET v == limiters[q.lim].visitors[q.ip]
               IN /\ objs' = [objs EXCEPT ![v].lastSeen = 0]
                  /\ reqs' = [reqs EXCEPT ![r].vis = v, ![r].pc = "vdAdd"]
          ELSE LET rq == [reqs EXCEPT ![r].pc = afterVisitor(q.lim), ![r].vlim = 0,
                                      ![r].timeToAct = 0]
               IN /\ reqs' = rq
                  /\ objs' = Collect(objs, limiters, rq)
    /\ UNCHANGED <<limiters, shareds, routines, verifyVars, authVars>>

\* A variant of vdAdd that counts only on delayCount.
vdAddTotalOnly(r) ==
    /\ reqs[r].pc = "vdAdd"
    /\ objs' = [objs EXCEPT ![reqs[r].vis].delayCount = Min(@ + 1, MaxCount)]
    /\ reqs' = [reqs EXCEPT ![r].pc = "vdLoad"]
    /\ UNCHANGED <<limiters, shareds, routines, verifyVars, authVars>>

\* visitorDelay: atomic.AddUint64(&visitor.delayCount, 1) and
\* atomic.AddInt64(&visitor.currDelays, 1). delayCount, which is only logged,
\* is counted up to MaxCount and added in the same step.
vdAdd(r) ==
    /\ reqs[r].pc = "vdAdd"
    /\ objs' = [objs EXCEPT ![reqs[r].vis].delayCount = Min(@ + 1, MaxCount),
                            ![reqs[r].vis].currDelays = @ + 1]
    /\ reqs' = [reqs EXCEPT ![r].pc = "vdLoad"]
    /\ UNCHANGED <<limiters, shareds, routines, verifyVars, authVars>>

\* visitorDelay: atomic.LoadInt64(&visitor.currDelays), the decision, and on
\* doSleep the call of time.Sleep(delay). A request that sleeps does not use its
\* reservation again.
vdLoad(r) ==
    /\ reqs[r].pc = "vdLoad"
    /\ LET q == reqs[r]
           curr == objs[q.vis].currDelays
           maxDelayed == maxDelayedOf(limiters[q.lim].vars, objs[q.vis].vtype)
           rq == IF tooMany(maxDelayed, curr)
                 THEN [reqs EXCEPT ![r].curr = curr, ![r].maxDelayed = maxDelayed,
                                   ![r].err = "ErrTooManyRequests", ![r].pc = "vdDec"]
                 ELSE [reqs EXCEPT ![r].curr = curr, ![r].maxDelayed = maxDelayed,
                                   ![r].wake = q.delay, ![r].pc = "vdSleep",
                                   ![r].vlim = 0, ![r].timeToAct = 0]
       IN /\ reqs' = rq
          /\ objs' = Collect(objs, limiters, rq)
    /\ UNCHANGED <<limiters, shareds, routines, verifyVars, authVars>>

\* visitorDelay: time.Sleep(delay) returns.
vdWake(r) ==
    /\ reqs[r].pc = "vdSleep"
    /\ reqs[r].wake = 0
    /\ reqs' = [reqs EXCEPT ![r].pc = "vdDec", ![r].slept = TRUE]
    /\ UNCHANGED <<limiters, shareds, objs, routines, verifyVars, authVars>>

\* visitorDelay: the decrement and the return to limit().
vdDec(r) ==
    /\ reqs[r].pc = "vdDec"
    /\ LET q == reqs[r]
           rq == IF q.err # "" THEN [reqs EXCEPT ![r].pc = "Cancel", ![r].vis = 0]
                 ELSE [reqs EXCEPT ![r].pc = afterVisitor(q.lim), ![r].vis = 0, ![r].vlim = 0,
                                   ![r].timeToAct = 0, ![r].curr = 0, ![r].maxDelayed = 0]
       IN /\ reqs' = rq
          /\ objs' = Collect(IF q.curr > 0 THEN [objs EXCEPT ![q.vis].currDelays = @ - 1]
                             ELSE objs, limiters, rq)
    /\ UNCHANGED <<limiters, shareds, routines, verifyVars, authVars>>

\* A variant of CancelStep that returns the error and keeps the reservation.
CancelStepKept(r) ==
    /\ reqs[r].pc = "Cancel"
    /\ LET rq == [reqs EXCEPT ![r].pc = "done", ![r].ret = reqs[r].err,
                              ![r].vlim = 0, ![r].timeToAct = 0]
       IN /\ reqs' = rq
          /\ objs' = Collect(objs, limiters, rq)
    /\ UNCHANGED <<limiters, shareds, routines, verifyVars, authVars>>

\* limit(): reservation.Cancel() and return err.
CancelStep(r) ==
    /\ reqs[r].pc = "Cancel"
    /\ LET q == reqs[r]
           rq == [reqs EXCEPT ![r].pc = "done", ![r].ret = q.err, ![r].cancelled = TRUE,
                              ![r].vlim = 0, ![r].timeToAct = 0]
       IN /\ reqs' = rq
          /\ objs' = Collect([objs EXCEPT ![q.vlim].limiter = Cancel(@, q.timeToAct)],
                             limiters, rq)
    /\ UNCHANGED <<limiters, shareds, routines, verifyVars, authVars>>

\* A variant of global that refuses a request the global limiter would delay.
globalRefusing(r) ==
    /\ reqs[r].pc = "global"
    /\ LET q == reqs[r]
           res == Reserve(limiters[q.lim].global)
           delay == Max(res.timeToAct, 0)
       IN /\ res.lim.tokens >= -(MaxDebt * res.lim.limit)
          /\ limiters' = [limiters EXCEPT ![q.lim].global = res.lim]
          /\ reqs' = [reqs EXCEPT ![r].pc = "done",
                                  ![r].ret = IF delay > 0 THEN "ErrTooManyRequests" ELSE ""]
    /\ UNCHANGED <<shareds, objs, routines, verifyVars, authVars>>

\* limit(): r.global.Reserve() and reservation.Delay() when the Limiter has a
\* global limiter, and on a delay the call of globalDelay.
global(r) ==
    /\ reqs[r].pc = "global"
    /\ LET q == reqs[r]
           res == Reserve(limiters[q.lim].global)
           delay == Max(res.timeToAct, 0)
       IN /\ res.lim.tokens >= -(MaxDebt * res.lim.limit)
          /\ limiters' = [limiters EXCEPT ![q.lim].global = res.lim]
          /\ reqs' = [reqs EXCEPT ![r].pc = IF delay > 0 THEN "globalDelay" ELSE "done",
                                  ![r].wake = delay]
    /\ UNCHANGED <<shareds, objs, routines, verifyVars, authVars>>

\* globalDelay: time.Sleep(delay) returns, and limit() returns nil.
globalDelay(r) ==
    /\ reqs[r].pc = "globalDelay"
    /\ reqs[r].wake = 0
    /\ reqs' = [reqs EXCEPT ![r].pc = "done"]
    /\ UNCHANGED <<limiters, shareds, objs, routines, verifyVars, authVars>>

\* The caller has seen limit()'s result; the goroutine ends.
Return(r) ==
    /\ reqs[r].pc = "done"
    /\ reqs' = [reqs EXCEPT ![r] = ReqInit]
    /\ UNCHANGED <<limiters, shareds, objs, routines, verifyVars, authVars>>

\* trim: under the Limiter's lock, delete every visitor last seen over an hour ago.
trim(lim) ==
    [lim EXCEPT !.visitors =
        Restrict(@, {k \in DOMAIN @ : ~(objs[lim.visitors[k]].lastSeen > Hour)})]

\* daemon of shared object s: trimVisitors over that object's limiter list.
trimVisitors(s) ==
    /\ LET listed == {shareds[s].limiters[i] : i \in 1..Len(shareds[s].limiters)}
           ls == [L \in 1..Len(limiters) |->
                     IF L \in listed THEN trim(limiters[L]) ELSE limiters[L]]
       IN /\ ls # limiters
          /\ limiters' = ls
          /\ objs' = Collect(objs, ls, reqs)
    /\ UNCHANGED <<shareds, routines, reqs, verifyVars, authVars>>

\* ------------------------------------------------------------ botcheck.go
\* getHostNameLoop after one net.LookupAddr attempt (h = 0 is a lookup error),
\* and on success routine's checkHostName. NoRoutine: the goroutine has ended.
getHostNameLoop(g, h) ==
    IF h = 0
    THEN IF g.retries + 1 > 3 THEN NoRoutine ELSE [g EXCEPT !.retries = @ + 1]
    ELSE IF ~checkHostName(Hosts[h]) THEN NoRoutine
         ELSE [g EXCEPT !.host = h, !.retries = 0, !.pc = "validateIPMatchLoop"]

\* A variant of validateIPMatchLoop that promotes whatever address the forward
\* lookup gives.
validateIPMatchLoopLax(g, ip2) ==
    IF ip2 = ""
    THEN IF g.retries > 3 THEN NoRoutine ELSE g
    ELSE [g EXCEPT !.ip2 = ip2, !.pc = "upgradeLimit"]

\* validateIPMatchLoop after one net.LookupIP attempt (ip2 = "" is a lookup
\* error), and routine's test of valid. The loop's retries is never incremented.
validateIPMatchLoop(g, ip2) ==
    IF ip2 = ""
    THEN IF g.retries > 3 THEN NoRoutine ELSE g
    ELSE IF ip2 = g.ip THEN [g EXCEPT !.ip2 = ip2, !.pc = "upgradeLimit"]
         ELSE NoRoutine

\* One reverse lookup of goroutine k.
LookupAddr(k, h) ==
    /\ routines[k].pc = "getHostNameLoop"
    /\ routines' = [routines EXCEPT ![k] = getHostNameLoop(@, h)]
    /\ UNCHANGED <<limiters, shareds, objs, reqs, verifyVars, authVars>>

\* One forward lookup of goroutine k.
LookupIP(k, ip2) ==
    /\ routines[k].pc = "validateIPMatchLoop"
    /\ routines' = [routines EXCEPT ![k] = validateIPMatchLoop(@, ip2)]
    /\ UNCHANGED <<limiters, shareds, objs, reqs, verifyVars, authVars>>

\* A variant of upgradeLimit that rewrites the visitor the Limiter's map holds
\* instead of replacing it.
upgradeLimitInPlace(k) ==
    /\ routines[k].pc = "upgradeLimit"
    /\ routines[k].ip \in DOMAIN limiters[routines[k].lim].visitors
    /\ LET g == routines[k]
           v == limiters[g.lim].visitors[g.ip]
           rate == visitorRate(limiters[g.lim].vars, goodBot)
       IN /\ shareds' = [shareds EXCEPT ![shared].gbots =
                            Put(@, g.ip, [name |-> g.name, host |-> g.host])]
          /\ objs' = [objs EXCEPT ![v].vtype = goodBot,
                                  ![v].limiter.limit = Max(rate.Interval, 0),
                                  ![v].limiter.burst = rate.Burst]
          /\ routines' = [routines EXCEPT ![k] = NoRoutine]
    /\ UNCHANGED <<limiters, reqs, verifyVars, authVars>>

\* upgradeLimit: under the good-bot write lock, register the ip and replace the
\* Limiter's visitor entry by a new goodBot visitor (createVisitor).
upgradeLimit(k) ==
    /\ routines[k].pc = "upgradeLimit"
    /\ Alloc(objs) # 0
    /\ LET g == routines[k]
           v == Alloc(objs)
           ls == [limiters EXCEPT ![g.lim].visitors = Put(@, g.ip, v)]
       IN /\ shareds' = [shareds EXCEPT ![shared].gbots =
                            Put(@, g.ip, [name |-> g.name, host |-> g.host])]
          /\ limiters' = ls
          /\ objs' = Collect([objs EXCEPT ![v] = newVisitor(limiters[g.lim].vars, g.name, goodBot)],
                             ls, reqs)
          /\ routines' = [routines EXCEPT ![k] = NoRoutine]
    /\ UNCHANGED <<reqs, verifyVars, authVars>>

\* Time passes by one tick.
Tick ==
    /\ objs' = [v \in 1..MaxVisitors |->
                  IF objs[v] = NoVisitor THEN NoVisitor
                  ELSE [objs[v] EXCEPT !.limiter = advance(@),
                                       !.nres = MaxSeq,
                                       !.lastSeen = Min(@ + 1, Hour + 1)]]
    /\ limiters' = [L \in 1..Len(limiters) |->
                      IF limiters[L].global = Nil THEN limiters[L]
                      ELSE [limiters[L] EXCEPT !.global = advance(@)]]
    /\ reqs' = [r \in Reqs |-> [reqs[r] EXCEPT !.wake = Max(@ - 1, 0),
                                               !.timeToAct = IF reqs[r].vlim = 0 THEN @
                                                             ELSE Max(@ - 1, -1)]]
    /\ UNCHANGED <<shareds, routines, verifyVars, authVars>>

\* ------------------------------------------- a verification goroutine alone
MaxTries == 8

NoLookups == [addr |-> 0, ip |-> 0]

\* One reverse lookup of the watched goroutine (getHostNameLoop's loop body).
ProbeAddr(h) ==
    /\ probe.pc = "getHostNameLoop"
    /\ lookups.addr < MaxTries
    /\ probe' = getHostNameLoop(probe, h)
    /\ lookups' = [lookups EXCEPT !.addr = @ + 1]
    /\ UNCHANGED <<locks, jobs, limVars, authVars>>

\* One forward lookup of the watched goroutine (validateIPMatchLoop's loop body).
ProbeIP(ip2) ==
    /\ probe.pc = "validateIPMatchLoop"
    /\ lookups.ip < MaxTries
    /\ probe' = validateIPMatchLoop(probe, ip2)
    /\ lookups' = [lookups EXCEPT !.ip = @ + 1]
    /\ UNCHANGED <<locks, jobs, limVars, authVars>>

\* routine's call of upgradeLimit, after which the goroutine ends.
ProbeUpgrade ==
    /\ probe.pc = "upgradeLimit"
    /\ probe' = [probe EXCEPT !.pc = "upgraded"]
    /\ UNCHANGED <<lookups, locks, jobs, limVars, authVars>>

\* ----------------------------------------------------------------- strconv
DigitVal == [c \in {"0","1","2","3","4","5","6","7","8","9"} |->
    CASE c = "0" -> 0 [] c = "1" -> 1 [] c = "2" -> 2 [] c = "3" -> 3 [] c = "4" -> 4
      [] c = "5" -> 5 [] c = "6" -> 6 [] c = "7" -> 7 [] c = "8" -> 8 [] c = "9" -> 9]

RECURSIVE Number(_)
Number(s) ==
    IF s = <<>> THEN 0 ELSE Number(SubSeq(s, 1, Len(s) - 1)) * 10 + DigitVal[s[Len(s)]]

\* strconv.Atoi: an optional sign and one or more decimal digits.
Atoi(s) ==
    LET signed == s # <<>> /\ s[1] \in {"+", "-"}
        body == IF signed THEN Tail(s) ELSE s
    IN IF body = <<>> \/ \E i \in 1..Len(body) : body[i] \notin DOMAIN DigitVal
       THEN [ok |-> FALSE, val |-> 0]
       ELSE [ok |-> TRUE, val |-> IF s[1] = "-" THEN -Number(body) ELSE Number(body)]

\* strings.Split on a one-character separator.
RECURSIVE Split(_, _)
Split(s, sep) ==
    LET at == {i \in 1..Len(s) : s[i] = sep}
    IN IF at = {} THEN <<s>>
       ELSE LET i == CHOOSE j \in at : \A k \in at : j <= k
            IN <<SubSeq(s, 1, i - 1)>> \o Split(SubSeq(s, i + 1, Len(s)), sep)

\* A variant of slicesContains that finds every element.
slicesContainsAny(s, e) == TRUE

\* slices.Contains
slicesContains(s, e) == \E i \in 1..Len(s) : s[i] = e

\* ------------------------------------------------------------ auth inputs
\* Token subjects: id|username of the user in the database, an id and a name
\* that user does not have, and three malformed ones.
Subjects == {
    <<"7","|","a","l">>,
    <<"8","|","a","l">>,
    <<"7","|","b","o">>,
    <<"7","a","l">>,
    <<"x","|","a","l">>,
    <<"7","|","a","|","l">> }

\* Token ids (the session id in decimal): a session, no number, no such session.
SessionIDs == { <<"3">>, <<"x">>, <<"4">> }

Scopes == { <<"admin">>, <<"user">> }

NoCookie == [state |-> "absent", Subject |-> <<>>, ID |-> <<>>, Permissions |-> <<>>]

\* What the cookie "access" of a request may hold.
AccessTokens ==
    {NoCookie} \cup
    [state : {"valid", "expired", "badsig"}, Subject : {<<"7","|","a","l">>},
     ID : {<<"3">>}, Permissions : Scopes]

\* What the cookie "refresh" of a request may hold.
RefreshTokens ==
    {NoCookie} \cup
    [state : {"expired"}, Subject : {<<"7","|","a","l">>}, ID : {<<"3">>},
     Permissions : {<<"admin">>}] \cup
    [state : {"valid"}, Subject : Subjects, ID : SessionIDs, Permissions : Scopes]

\* A request: its cookies, and what the environment does while it is served
\* (failAt = k: the k-th token.SignedString call fails; 0: none does).
Requests ==
    [access : AccessTokens, refresh : RefreshTokens, id : BOOLEAN,
     failAt : 0..3, trackerOK : BOOLEAN]

\* The database: one user, with or without the admin role and a session.
Databases ==
    [auth : {{[id |-> 7, name |-> <<"a","l">>, roles |-> roles]} : roles \in Scopes},
     sess : {{}, {[id |-> 3, auth_id |-> 7, touched |-> FALSE]}}]

\* ----------------------------------------------------------------- net/http
NewResponse == [status |-> 0, location |-> "", cookies |-> <<>>, invoked |-> FALSE]

StatusSeeOther == 303

StatusUnauthorized == 401

StatusInternalServerError == 500

\* ResponseWriter.WriteHeader: the first call decides.
WriteHeader(w, code) == IF w.status = 0 THEN [w EXCEPT !.status = code] ELSE w

\* http.SetCookie: a header, sent when it is set before the status is written.
SetCookie(w, c) == IF w.status = 0 THEN [w EXCEPT !.cookies = Append(@, c)] ELSE w

\* http.Redirect
Redirect(w, url, code) ==
    WriteHeader(IF w.status = 0 THEN [w EXCEPT !.location = url] ELSE w, code)

\* ------------------------------------------------------------ auth/auth.go
NoClaims == [Subject |-> <<>>, ID |-> <<>>, Permissions |-> <<>>]

\* A variant of getClaims that takes the claims of any token presented.
getClaimsUnverified(cookie) ==
    IF cookie.state = "absent" THEN [claims |-> NoClaims, success |-> FALSE]
    ELSE [claims |-> [Subject |-> cookie.Subject, ID |-> cookie.ID,
                      Permissions |-> cookie.Permissions],
          success |-> TRUE]

\* getClaims: the claims of a cookie whose token parses, is signed with the
\* secret and has not expired.
getClaims(cookie) ==
    IF cookie.state = "absent" THEN [claims |-> NoClaims, success |-> FALSE]
    ELSE IF cookie.state # "valid" THEN [claims |-> NoClaims, success |-> FALSE]
    ELSE [claims |-> [Subject |-> cookie.Subject, ID |-> cookie.ID,
                      Permissions |-> cookie.Permissions],
          success |-> TRUE]

\* A variant of revalidateSecurityInfo whose query has no join on usr.sess.
revalidateSecurityInfoNoSession(d, info) ==
    LET rows == {a \in d.auth : a.id = info.id /\ a.name = info.User}
    IN IF rows = {} THEN [err |-> TRUE, permissions |-> <<>>]
       ELSE [err |-> FALSE, permissions |-> (CHOOSE a \in rows : TRUE).roles]

\* revalidateSecurityInfo: the roles of the row joining usr.auth and usr.sess
\* on (auth.id, auth.name, sess.id); err stands for pgx.ErrNoRows.
revalidateSecurityInfo(d, info) ==
    LET rows == {a \in d.auth : /\ a.id = info.id
                                /\ a.name = info.User
                                /\ \E s \in d.sess : s.auth_id = a.id /\ s.id = info.session}
    IN IF rows = {} THEN [err |-> TRUE, permissions |-> <<>>]
       ELSE [err |-> FALSE, permissions |-> (CHOOSE a \in rows : TRUE).roles]

\* setAuthCookie: sign the claims and set the cookie; on a signing error write
\* status 500 and return the error. expires is the claims' ExpiresAt.
setAuthCookie(w, name, claims, expires, signed) ==
    IF ~signed THEN [w |-> WriteHeader(w, StatusInternalServerError), err |-> TRUE]
    ELSE [w |-> SetCookie(w, [name |-> name, Subject |-> claims.Subject, ID |-> claims.ID,
                              Permissions |-> claims.Permissions, Expires |-> expires]),
          err |-> FALSE]

\* tracker.CreateAuthTracker: the tracking cookie "id".
CreateAuthTracker(w, name, permissions, ok) ==
    IF ~ok THEN [w |-> w, err |-> TRUE]
    ELSE [w |-> SetCookie(w, [name |-> "id", Subject |-> name, ID |-> <<>>,
                              Permissions |-> permissions, Expires |-> "tracker"]),
          err |-> FALSE]

\* The result of revalidate: the response so far, the claims, success, and the
\* session whose timestamp the detached goroutine updates (0: none started).
Revalidated(w, claims, success, session) ==
    [w |-> w, claims |-> claims, success |-> success, session |-> session]

\* A variant of reissue that keeps the scope the refresh token carries.
reissueStale(w, r, claims, info) ==
    LET c == claims
        refresh == setAuthCookie(w, "refresh", c, "refresh", r.failAt # 1)
        session == setAuthCookie(refresh.w, "session",
                                 [c EXCEPT !.Subject = info.User, !.ID = <<>>],
                                 "refresh", r.failAt # 2)
        access == setAuthCookie(session.w, "access", c, "AccessExpire", r.failAt # 3)
        track == IF r.id THEN [w |-> access.w, err |-> FALSE]
                 ELSE CreateAuthTracker(access.w, info.User, info.permissions, r.trackerOK)
    IN IF refresh.err THEN Revalidated(refresh.w, NoClaims, FALSE, info.session)
       ELSE IF session.err THEN Revalidated(session.w, NoClaims, FALSE, info.session)
       ELSE IF access.err THEN Revalidated(access.w, NoClaims, FALSE, info.session)
       ELSE IF track.err THEN Revalidated(track.w, NoClaims, FALSE, info.session)
       ELSE Revalidated(track.w, c, TRUE, info.session)

\* revalidate, after the refresh token's claims were accepted and the database
\* returned info.permissions: the three cookies and the tracking cookie.
reissue(w, r, claims, info) ==
    LET c == [claims EXCEPT !.Permissions = info.permissions]
        refresh == setAuthCookie(w, "refresh", c, "refresh", r.failAt # 1)
        session == setAuthCookie(refresh.w, "session",
                                 [c EXCEPT !.Subject = info.User, !.ID = <<>>],
                                 "refresh", r.failAt # 2)
        access == setAuthCookie(session.w, "access", c, "AccessExpire", r.failAt # 3)
        track == IF r.id THEN [w |-> access.w, err |-> FALSE]
                 ELSE CreateAuthTracker(access.w, info.User, info.permissions, r.trackerOK)
    IN IF refresh.err THEN Revalidated(refresh.w, NoClaims, FALSE, info.session)
       ELSE IF session.err THEN Revalidated(session.w, NoClaims, FALSE, info.session)
       ELSE IF access.err THEN Revalidated(access.w, NoClaims, FALSE, info.session)
       ELSE IF track.err THEN Revalidated(track.w, NoClaims, FALSE, info.session)
       ELSE Revalidated(track.w, c, TRUE, info.session)

\* revalidate
revalidate(w, r, d) ==
    LET got == getClaims(r.refresh)
        creds == Split(got.claims.Subject, "|")
        id == Atoi(creds[1])
        sess == Atoi(got.claims.ID)
        info == [User |-> creds[2], id |-> id.val, session |-> sess.val,
                 permissions |-> <<>>]
        found == revalidateSecurityInfo(d, info)
    IN IF ~got.success THEN Revalidated(w, NoClaims, FALSE, 0)
       ELSE IF Len(creds) # 2 THEN Revalidated(w, NoClaims, FALSE, 0)
       ELSE IF ~id.ok THEN Revalidated(w, NoClaims, FALSE, 0)
       ELSE IF ~sess.ok THEN Revalidated(w, NoClaims, FALSE, 0)
       ELSE IF found.err THEN Revalidated(w, NoClaims, FALSE, 0)
       ELSE reissue(w, r, got.claims, [info EXCEPT !.permissions = found.permissions])

\* AuthHandler(access, f) serving request r; f only marks the response.
AuthHandler(access, r) ==
    LET got == getClaims(r.access)
        rv == IF got.success THEN Revalidated(NewResponse, got.claims, TRUE, 0)
              ELSE revalidate(NewResponse, r, db)
        w == IF ~rv.success THEN Redirect(rv.w, "/signin/", StatusSeeOther)
             ELSE IF ~slicesContains(rv.claims.Permissions, access)
             THEN WriteHeader(rv.w, StatusUnauthorized)
             ELSE [rv.w EXCEPT !.invoked = TRUE]
    IN /\ ~http.served
       /\ http' = [served |-> TRUE, access |-> access, req |-> r, resp |-> w,
                   claims |-> rv.claims, success |-> rv.success]
       /\ pending' = IF rv.session # 0 THEN pending \cup {rv.session} ELSE pending
       /\ UNCHANGED <<db, detached, pw, limVars, verifyVars>>

\* The goroutine revalidate starts: updateSessionTimestamp.
updateSessionTimestamp(session) ==
    /\ session \in pending
    /\ pending' = pending \ {session}
    /\ db' = [db EXCEPT !.sess = {IF s.id = session THEN [s EXCEPT !.touched = TRUE] ELSE s
                                  : s \in @}]
    /\ UNCHANGED <<http, detached, pw, limVars, verifyVars>>

\* ------------------------------------------------------------ characters
\* The printable ASCII characters in code order, from the space (code 32);
\* the double quote, the backslash and the backtick are written by name.
Ascii == <<
    " ", "!", "QUOTE", "#", "$", "%", "&", "'", "(", ")", "*", "+", ",", "-", ".", "/",
    "0", "1", "2", "3", "4", "5", "6", "7", "8", "9", ":", ";", "<", "=", ">", "?",
    "@", "A", "B", "C", "D", "E", "F", "G", "H", "I", "J", "K", "L", "M", "N", "O",
    "P", "Q", "R", "S", "T", "U", "V", "W", "X", "Y", "Z", "[", "BACKSLASH", "]", "^", "_",
    "BACKTICK", "a", "b", "c", "d", "e", "f", "g", "h", "i", "j", "k", "l", "m", "n", "o",
    "p", "q", "r", "s", "t", "u", "v", "w", "x", "y", "z", "{", "|", "}", "~" >>

\* The position of a character in Ascii (its code less 31); Ascii[n] is the
\* character back.
Ord == [c \in {Ascii[i] : i \in 1..Len(Ascii)} |->
           CHOOSE i \in 1..Len(Ascii) : Ascii[i] = c]

\* r is a character between lo and hi, as in r >= lo && r <= hi.
Between(r, lo, hi) ==
    /\ r \in DOMAIN Ord
    /\ Ord[r] >= Ord[lo]
    /\ Ord[r] <= Ord[hi]

\* strconv.Itoa of a natural number, and fmt's %02d.
RECURSIVE Itoa(_)
Itoa(n) ==
    IF n < 10 THEN <<Ascii[Ord["0"] + n]>>
    ELSE Itoa(n \div 10) \o <<Ascii[Ord["0"] + (n % 10)]>>

Pad2(n) == IF n < 10 THEN <<"0">> \o Itoa(n) ELSE Itoa(n)

\* strings.Join
RECURSIVE Join(_, _)
Join(pieces, sep) ==
    IF Len(pieces) = 0 THEN <<>>
    ELSE IF Len(pieces) = 1 THEN pieces[1]
    ELSE pieces[1] \o <<sep>> \o Join(Tail(pieces), sep)

\* ------------------------------------------------------ auth/policy (part_004)
minUsernameLen == 4

maxUsernameLen == 20

minPasswordLen == 10

maxPasswordLen == 32

\* str.ToASCII: the string without the characters outside ASCII.
ToASCII(s) == SelectSeq(s, LAMBDA c : c \in DOMAIN Ord)

\* str.IsSpecial: the punctuation the password policy lists.
IsSpecial(c) ==
    c \in {"!", "#", "$", "%", "&", "(", ")", "*", "+", ",", "-", ".", "/", ":", ";",
           "<", "=", ">", "?", "@", "^", "_", "{", "|", "}", "~"}

\* checkUsername: TRUE when it returns nil.
checkUsername(name) ==
    /\ Len(name) >= minUsernameLen
    /\ Len(name) <= maxUsernameLen
    /\ name = ToASCII(name)
    /\ Between(name[1], "a", "z") \/ Between(name[1], "A", "Z")
    /\ \A i \in 1..Len(name) :
          \/ Between(name[i], "a", "z")
          \/ Between(name[i], "A", "Z")
          \/ Between(name[i], "0", "9")

\* A variant of checkPassword that accepts every password.
checkPasswordAny(pass) == TRUE

\* checkPassword: TRUE when it returns nil.
checkPassword(pass) ==
    LET has(lo, hi) == \E i \in 1..Len(pass) : Between(pass[i], lo, hi)
    IN /\ Len(pass) >= minPasswordLen
       /\ Len(pass) <= maxPasswordLen
       /\ pass = ToASCII(pass)
       /\ \A i \in 1..Len(pass) :
             \/ Between(pass[i], "a", "z")
             \/ Between(pass[i], "A", "Z")
             \/ Between(pass[i], "0", "9")
             \/ IsSpecial(pass[i])
             \/ pass[i] = " "
       /\ has("a", "z")
       /\ has("A", "Z")
       /\ has("0", "9")
       /\ \E i \in 1..Len(pass) : IsSpecial(pass[i])

\* ------------------------------------------------------------ auth/pass.go
hashVersion == "1"

hashCost == 4

\* The salts bcrypt may draw, the nonces encrypt may draw, and the values of
\* Auth.key: two AES keys and one of a length aes.NewCipher refuses.
Salts == { <<"g","2","t","Z">>, <<"N","y","5","m">> }

Nonces == { "n1", "n2" }

Keys == { "key1", "key2", "short" }

\* Auth.pepper
pepper == <<"p","e">>

\* bcrypt's hash string $2a$<cost>$<salt><digest>. The digest stands for an
\* ideal hash: it is written from the cost, the salt and the code of every
\* character of the password, so that it differs when any of them differs.
RECURSIVE bcryptDigest(_)
bcryptDigest(password) ==
    IF password = <<>> THEN <<>>
    ELSE Pad2(Ord[password[1]]) \o bcryptDigest(Tail(password))

bcrypt(password, cost, salt) ==
    <<"$","2","a","$">> \o Pad2(cost) \o <<"$">> \o salt \o Pad2(cost) \o salt
        \o bcryptDigest(password)

\* bcrypt.CompareHashAndPassword: "" for nil.
CompareHashAndPassword(hashed, password) ==
    LET pieces == Split(hashed, "$")
    IN IF \/ Len(pieces) # 4
          \/ pieces[1] # <<>>
          \/ pieces[2] # <<"2","a">>
          \/ ~Atoi(pieces[3]).ok
       THEN "ErrHashTooShort"
       ELSE IF \E salt \in Salts : bcrypt(password, Atoi(pieces[3]).val, salt) = hashed
       THEN ""
       ELSE "ErrMismatchedHashAndPassword"

rotLower(r) == IF Ord[r] > Ord["m"] THEN Ascii[Ord[r] - 13] ELSE Ascii[Ord[r] + 13]

rotUpper(r) == IF Ord[r] > Ord["M"] THEN Ascii[Ord[r] - 13] ELSE Ascii[Ord[r] + 13]

rotDigit(r) == IF Ord[r] >= Ord["5"] THEN Ascii[Ord[r] - 5] ELSE Ascii[Ord[r] + 5]

rot13(r) ==
    IF Between(r, "a", "z") THEN rotLower(r)
    ELSE IF Between(r, "A", "Z") THEN rotUpper(r)
    ELSE IF Between(r, "0", "9") THEN rotDigit(r)
    ELSE r

\* alter: $2a$04$rest becomes $1$2a$12$ and strings.Map(rot13, rest).
alter(hash) ==
    LET pieces == Tail(Split(hash, "$"))
        changed == [pieces EXCEPT ![2] = <<"1","2">>, ![3] = [i \in 1..Len(pieces[3]) |-> rot13(pieces[3][i])]]
    IN <<"$", hashVersion, "$">> \o Join(changed, "$")

\* A variant of unalter that leaves the work factor as alter wrote it.
unalterCostKept(hash) ==
    LET pieces == Tail(Tail(Split(hash, "$")))
        changed == [pieces EXCEPT ![3] = [i \in 1..Len(pieces[3]) |-> rot13(pieces[3][i])]]
    IN <<"$">> \o Join(changed, "$")

\* unalter: $1$2a$12$rest becomes $2a$04$rot13(rest).
unalter(hash) ==
    LET pieces == Tail(Tail(Split(hash, "$")))
        changed == [pieces EXCEPT ![2] = <<"0","4">>, ![3] = [i \in 1..Len(pieces[3]) |-> rot13(pieces[3][i])]]
    IN <<"$">> \o Join(changed, "$")

NoSecret == [enc |-> "", nonce |-> "", box |-> [key |-> "", nonce |-> "", text |-> <<>>]]

\* encrypt: AES-GCM under key with a drawn nonce, the nonce in front of the
\* sealed box, the whole in URL base64. The box stands for an ideal
\* authenticated cipher: it opens under the key and nonce that sealed it.
encrypt(secret, key, nonce) ==
    IF key = "short" THEN [out |-> NoSecret, err |-> TRUE]
    ELSE [out |-> [enc |-> "base64", nonce |-> nonce,
                   box |-> [key |-> key, nonce |-> nonce, text |-> secret]],
          err |-> FALSE]

\* decrypt: decode, split off the nonce, open the box. A secret that decodes
\* to fewer bytes than the nonce (nonce = "" here) makes unencoded[:nonceSize]
\* panic.
decrypt(secret, key) ==
    IF secret.enc # "base64" THEN [out |-> <<>>, err |-> TRUE, panic |-> FALSE]
    ELSE IF key = "short" THEN [out |-> <<>>, err |-> TRUE, panic |-> FALSE]
    ELSE IF secret.nonce = "" THEN [out |-> <<>>, err |-> FALSE, panic |-> TRUE]
    ELSE IF secret.box.key # key \/ secret.box.nonce # secret.nonce
    THEN [out |-> <<>>, err |-> TRUE, panic |-> FALSE]
    ELSE [out |-> secret.box.text, err |-> FALSE, panic |-> FALSE]

\* generate under Auth.key = key, with the salt and nonce the random sources
\* give; hashed = FALSE when bcrypt.GenerateFromPassword returns an error.
\* slowDown tells whether the call ran slowDown().
generate(pass, key, salt, nonce, hashed) ==
    LET peppered == pass \o <<".">> \o pepper
        encoded == encrypt(alter(bcrypt(peppered, hashCost, salt)), key, nonce)
    IN IF ~hashed THEN [hash |-> NoSecret, err |-> TRUE, slowDown |-> FALSE]
       ELSE IF encoded.err THEN [hash |-> NoSecret, err |-> TRUE, slowDown |-> FALSE]
       ELSE [hash |-> encoded.out, err |-> FALSE, slowDown |-> TRUE]

\* compare under Auth.key = key.
compare(hash, pass, key) ==
    LET peppered == pass \o <<".">> \o pepper
        decoded == decrypt(hash, key)
    IN IF decoded.panic
       THEN [valid |-> FALSE, err |-> FALSE, slowDown |-> FALSE, panic |-> TRUE]
       ELSE IF decoded.err
       THEN [valid |-> FALSE, err |-> TRUE, slowDown |-> FALSE, panic |-> FALSE]
       ELSE IF CompareHashAndPassword(unalter(decoded.out), peppered) # ""
       THEN [valid |-> FALSE, err |-> TRUE, slowDown |-> FALSE, panic |-> FALSE]
       ELSE [valid |-> TRUE, err |-> FALSE, slowDown |-> TRUE, panic |-> FALSE]

\* The passwords tried: one that meets the policy, four that differ from it
\* in one character, and one that lacks its last character.
Passwords == {
    <<"S","t","r","0","n","g","!","P","a","s","s">>,
    <<"S","t","r","0","n","g","!","P","a","s","z">>,
    <<"s","t","r","0","n","g","!","P","a","s","s">>,
    <<"S","t","r","5","n","g","!","P","a","s","s">>,
    <<"S","t","r","0","n","g","$","P","a","s","s">>,
    <<"S","t","r","0","n","g","!","P","a","s">> }

NoPass ==
    [stage |-> "idle", p |-> <<>>, q |-> <<>>, genKey |-> "", cmpKey |-> "", salt |-> <<>>,
     nonce |-> "", hashed |-> TRUE,
     gen |-> [hash |-> NoSecret, err |-> FALSE, slowDown |-> FALSE],
     cmp |-> [valid |-> FALSE, err |-> FALSE, slowDown |-> FALSE]]

\* A password is stored: generate(p).
GenerateStep ==
    /\ pw.stage = "new"
    /\ LET g == generate(pw.p, pw.genKey, pw.salt, pw.nonce, pw.hashed)
       IN pw' = [pw EXCEPT !.stage = IF g.err THEN "failed" ELSE "generated", !.gen = g]
    /\ UNCHANGED <<db, pending, http, detached, limVars, verifyVars>>

\* A password is verified against what was stored: compare(stored, q).
CompareStep ==
    /\ pw.stage = "generated"
    /\ pw' = [pw EXCEPT !.stage = "compared",
                        !.cmp = compare(pw.gen.hash, pw.q, pw.cmpKey)]
    /\ UNCHANGED <<db, pending, http, detached, limVars, verifyVars>>

\* ---------------------------------------------------------- auth/routes.go
StatusOK == 200

StatusBadRequest == 400

\* The user names a sign-in may carry: a registered one, an unregistered one,
\* one too short and one with a character outside [a-zA-Z0-9].
Usernames == {
    <<"a","l","i","c","e","0","1">>,
    <<"b","o","b","b","y">>,
    <<"a","l">>,
    <<"a","l","|","c","e">>,
    <<"d","a","v","e","0","1">> }

\* The passwords a sign-in may carry: the registered user's, a wrong one that
\* meets the policy, and one that does not.
SigninPasswords == {
    <<"S","t","r","0","n","g","!","P","a","s","s">>,
    <<"S","t","r","0","n","g","!","P","a","s","z">>,
    <<"s","h","o","r","t">> }

\* The cookie "refresh" of a sign-in or sign-out request.
SigninTokens ==
    {NoCookie} \cup
    [state : {"expired"}, Subject : {<<"7","|","a","l","i","c","e","0","1">>},
     ID : {<<"3">>}, Permissions : {<<"user">>}] \cup
    {[state |-> "valid", Subject |-> t[1], ID |-> t[2], Permissions |-> <<"user">>] :
        t \in { << <<"7","|","a","l","i","c","e","0","1">>, <<"3">> >>,
                << <<"7","|","a","l","i","c","e","0","1">>, <<"5">> >>,
                << <<"7","a","l","i","c","e","0","1">>, <<"3">> >>,
                << <<"7","|","a","l","i","c","e","0","1">>, <<"x">> >>,
                << <<"8","|","c","a","r","o","l","1">>, <<"3">> >> }}

\* A request to /signin or /signout: the route, the JSON body (decoded = FALSE
\* when it does not decode), the refresh cookie, and what the environment does
\* while it is served: the number rand.Int31 gives, the SignedString call that
\* fails (0: none), whether the tracker cookie can be made, whether the
\* database answers the lookup with an error.
SigninRequests ==
    [route : {"signout"}, decoded : {FALSE}, User : {<<>>}, Pass : {<<>>},
     refresh : SigninTokens, rand : {5}, failAt : {0}, trackerOK : {TRUE},
     dbErr : {FALSE}] \cup
    [route : {"signin"}, decoded : {FALSE}, User : {<<>>}, Pass : {<<>>},
     refresh : SigninTokens, rand : {5}, failAt : {0}, trackerOK : {TRUE},
     dbErr : {FALSE}] \cup
    [route : {"signin"}, decoded : {TRUE}, User : Usernames, Pass : SigninPasswords,
     refresh : SigninTokens, rand : {3, 5}, failAt : 0..3, trackerOK : BOOLEAN,
     dbErr : BOOLEAN]

\* The database at sign-in: the users alice01 (id 7, registered with Str0ng!Pass),
\* carol1 (id 8) and dave01 (id 9, whose stored hash decodes to no byte), and
\* any of the first two's sessions numbered 3.
SigninDatabases ==
    [auth : {{[id |-> 7, name |-> <<"a","l","i","c","e","0","1">>,
               hash |-> generate(<<"S","t","r","0","n","g","!","P","a","s","s">>,
                                 "key1", <<"g","2","t","Z">>, "n1", TRUE).hash,
               roles |-> roles, last_login |-> "earlier"],
              [id |-> 8, name |-> <<"c","a","r","o","l","1">>,
               hash |-> generate(<<"S","t","r","0","n","g","$","P","a","s","s">>,
                                 "key1", <<"N","y","5","m">>, "n2", TRUE).hash,
               roles |-> <<"user">>, last_login |-> "earlier"],
              [id |-> 9, name |-> <<"d","a","v","e","0","1">>,
               hash |-> [NoSecret EXCEPT !.enc = "base64"],
               roles |-> <<"user">>, last_login |-> "earlier"]} : roles \in Scopes},
     sess : SUBSET {[id |-> 3, auth_id |-> 7, expires |-> "earlier"],
                    [id |-> 3, auth_id |-> 8, expires |-> "earlier"]}]

\* A goroutine started with `go`: the one of signOutInternal holds the claims
\* of the refresh token, the one of signIn holds the signin struct.
Task(kind, claims, info) == [kind |-> kind, claims |-> claims, user |-> info]

NoUser == [User |-> <<>>, id |-> 0, permissions |-> <<>>, session |-> 0, expires |-> ""]

\* deleteCookie: the cookie with an empty value and an expiry in the past.
deleteCookie(w, name) ==
    SetCookie(w, [name |-> name, Subject |-> <<>>, ID |-> <<>>, Permissions |-> <<>>,
                  Expires |-> "Unix(0, 0)"])

\* A variant of signOutInternal that leaves the tracking cookie "id" alone.
signOutInternalKeepsId(w, r) ==
    LET got == getClaims(r.refresh)
    IN [w |-> deleteCookie(deleteCookie(deleteCookie(w, "session"), "access"), "refresh"),
        spawned |-> IF got.success THEN {Task("signOut", got.claims, NoUser)} ELSE {}]

\* signOutInternal: the goroutine it starts when the refresh token is valid,
\* and the four cookies it deletes.
signOutInternal(w, r) ==
    LET got == getClaims(r.refresh)
    IN [w |-> deleteCookie(deleteCookie(deleteCookie(deleteCookie(w, "id"), "session"),
                                        "access"), "refresh"),
        spawned |-> IF got.success THEN {Task("signOut", got.claims, NoUser)} ELSE {}]

\* getSecurityInfo: select id, hash, roles from usr.auth where name = $1.
getSecurityInfo(d, r) ==
    LET rows == {a \in d.auth : a.name = r.User}
        row == CHOOSE a \in rows : TRUE
    IN IF r.dbErr THEN [err |-> "error", hash |-> NoSecret, id |-> 0, permissions |-> <<>>]
       ELSE IF rows = {}
       THEN [err |-> "ErrNoRows", hash |-> NoSecret, id |-> 0, permissions |-> <<>>]
       ELSE [err |-> "", hash |-> row.hash, id |-> row.id, permissions |-> row.roles]

\* createTokens: the access, refresh and session cookies and the tracker.
createTokens(w, info, r) ==
    LET c == [Subject |-> Itoa(info.id) \o <<"|">> \o info.User,
              ID |-> Itoa(info.session), Permissions |-> info.permissions]
        access == setAuthCookie(w, "access", c, "AccessExpire", r.failAt # 1)
        refresh == setAuthCookie(access.w, "refresh", c, info.expires, r.failAt # 2)
        session == setAuthCookie(refresh.w, "session",
                                 [c EXCEPT !.Subject = info.User, !.ID = <<>>],
                                 info.expires, r.failAt # 3)
        track == CreateAuthTracker(session.w, info.User, info.permissions, r.trackerOK)
    IN IF access.err THEN access
       ELSE IF refresh.err THEN refresh
       ELSE IF session.err THEN session
       ELSE track

\* What signIn and signOut leave in http: the response, the statements the
\* handler ran on the database itself, the goroutines it started, the signin
\* struct it filled, and the session table as it was.
Served(r, w, queried, spawned, info) ==
    [served |-> TRUE, req |-> r,
     resp |-> IF w.status = 0 THEN [w EXCEPT !.status = StatusOK] ELSE w,
     queried |-> queried, spawned |-> spawned, user |-> info, before |-> db.sess]

\* A variant of handlePanic without the deferred recover.
handlePanicUnrecovered(w, panicked) == w

\* handlePanic: the deferred function recovers a panic of the handler it wraps
\* and writes status 500 on the response as the handler left it.
handlePanic(w, panicked) ==
    IF panicked THEN WriteHeader(w, StatusInternalServerError) ELSE w

\* signIn, under Auth.key = "key1" and inside handlePanic.
signIn(r) ==
    LET out == signOutInternal(NewResponse, r)
        found == getSecurityInfo(db, r)
        matched == compare(found.hash, r.Pass, "key1")
        info == [User |-> r.User, id |-> found.id, permissions |-> found.permissions,
                 session |-> r.rand, expires |-> "RefreshExpire"]
        tokens == createTokens(out.w, info, r)
        done ==
            IF ~r.decoded
            THEN Served(r, WriteHeader(out.w, StatusBadRequest), <<>>, out.spawned, NoUser)
            ELSE IF ~checkUsername(r.User) \/ ~checkPassword(r.Pass)
            THEN Served(r, WriteHeader(out.w, StatusUnauthorized), <<>>, out.spawned, NoUser)
            ELSE IF found.err = "ErrNoRows"
            THEN Served(r, WriteHeader(out.w, StatusUnauthorized), <<"getSecurityInfo">>,
                        out.spawned, NoUser)
            ELSE IF found.err # ""
            THEN Served(r, WriteHeader(out.w, StatusInternalServerError),
                        <<"getSecurityInfo">>, out.spawned, NoUser)
            ELSE IF matched.panic
            THEN Served(r, handlePanic(out.w, TRUE), <<"getSecurityInfo">>, out.spawned, NoUser)
            ELSE IF matched.err
            THEN Served(r, WriteHeader(out.w, StatusInternalServerError),
                        <<"getSecurityInfo">>, out.spawned, NoUser)
            ELSE IF ~matched.valid
            THEN Served(r, WriteHeader(out.w, StatusUnauthorized), <<"getSecurityInfo">>,
                        out.spawned, NoUser)
            ELSE IF tokens.err
            THEN Served(r, WriteHeader(tokens.w, StatusInternalServerError),
                        <<"getSecurityInfo">>, out.spawned, info)
            ELSE Served(r, tokens.w, <<"getSecurityInfo">>,
                        out.spawned \cup {Task("createSession", NoClaims, info)}, info)
    IN /\ ~http.served
       /\ r.route = "signin"
       /\ http' = done
       /\ detached' = detached \cup done.spawned
       /\ UNCHANGED <<db, pending, pw, limVars, verifyVars>>

\* signOut
signOut(r) ==
    LET out == signOutInternal(NewResponse, r)
        done == Served(r, Redirect(out.w, "/", StatusSeeOther), <<>>, out.spawned, NoUser)
    IN /\ ~http.served
       /\ r.route = "signout"
       /\ http' = done
       /\ detached' = detached \cup done.spawned
       /\ UNCHANGED <<db, pending, pw, limVars, verifyVars>>

\* A variant of deleteSession that deletes the session id of every user.
deleteSessionOfAll(sessions, id, sess) == {s \in sessions : s.id # sess}

\* deleteSession: delete from usr.sess where id = $1 and auth_id = $2, with
\* the arguments sess, id.
deleteSession(sessions, id, sess) == {s \in sessions : ~(s.id = sess /\ s.auth_id = id)}

\* The goroutine of signOutInternal.
signOutDetached(t) ==
    LET creds == Split(t.claims.Subject, "|")
        id == Atoi(creds[1])
        sess == Atoi(t.claims.ID)
    IN /\ t \in detached
       /\ t.kind = "signOut"
       /\ detached' = detached \ {t}
       /\ db' = IF Len(creds) # 2 \/ ~id.ok \/ ~sess.ok THEN db
                ELSE [db EXCEPT !.sess = deleteSession(@, id.val, sess.val)]
       /\ UNCHANGED <<pending, http, pw, limVars, verifyVars>>

\* A variant of createSession that writes nothing.
createSessionDropped(d, info) == d

\* createSession: the batch of the insert into usr.sess, which the primary
\* key (id, auth_id) refuses for a row that exists, and the update of
\* usr.auth; a refused insert fails the batch as a whole.
createSession(d, info) ==
    IF \E s \in d.sess : s.id = info.session /\ s.auth_id = info.id THEN d
    ELSE [auth |-> {IF a.id = info.id THEN [a EXCEPT !.last_login = "now"] ELSE a
                    : a \in d.auth},
          sess |-> d.sess \cup {[id |-> info.session, auth_id |-> info.id,
                                 expires |-> info.expires]}]

\* The goroutine of signIn.
createSessionDetached(t) ==
    /\ t \in detached
    /\ t.kind = "createSession"
    /\ detached' = detached \ {t}
    /\ db' = createSession(db, t.user)
    /\ UNCHANGED <<pending, http, pw, limVars, verifyVars>>

\* ------------------------------------------------------ tracker/tracker.go
\* json.Marshal of an *Info. The JSON text is written without its quotes, and
\* the elements of an array are separated by ";" instead of ",": the names and
\* scopes hold letters and digits only. Scope has omitempty; a nil pointer is
\* null.
Marshal(info) ==
    IF info = Nil THEN <<"n","u","l","l">>
    ELSE <<"{">>
         \o Join(<< <<"i","d",":">> \o Itoa(info.ID),
                    <<"n","a","m","e",":">> \o info.Name,
                    <<"a","u","t","h",":">> \o (IF info.Auth THEN <<"t","r","u","e">>
                                                ELSE <<"f","a","l","s","e">>) >>
                 \o (IF info.Scope = <<>> THEN <<>>
                     ELSE << <<"s","c","o","p","e",":","[">> \o Join(info.Scope, ";")
                             \o <<"]">> >>),
                 ",")
         \o <<"}">>

\* xxhash.Sum64: a hash of the bytes that is not cryptographic. It stands as
\* the sum of position times character code, in 16 bits.
Sum64(bytes) ==
    LET RECURSIVE sum(_)
        sum(n) == IF n = 0 THEN 0 ELSE sum(n - 1) + n * Ord[bytes[n]]
    IN sum(Len(bytes)) % 65536

\* createNewTracker and writeTrackingCookie: the payload is the Info and the
\* hash of the Info's JSON; its JSON goes into the cookie "id" in base64, which
\* stands as the sequence of the character codes.
createNewTracker(w, info) ==
    LET bytes == Marshal(info)
        Sig == Sum64(bytes)
        payload == <<"{","i","n","f","o",":">> \o bytes \o <<",","s","i","g",":">>
                   \o Itoa(Sig) \o <<"}">>
        val == [i \in 1..Len(payload) |-> Ord[payload[i]]]
    IN SetCookie(w, [name |-> "id", Value |-> val, Expires |-> "24 * 365 * time.Hour"])

\* A variant of getTrackingCookie that does not call validateTrackingCookie.
getTrackingCookieUnvalidated(r) ==
    LET c == r.id
        b64ok == \A i \in 1..Len(c.Value) : c.Value[i] \in 1..Len(Ascii)
        val == [i \in 1..Len(c.Value) |-> Ascii[c.Value[i]]]
        at == {k \in 1..(Len(val) - 4) : SubSeq(val, k, k + 4) = <<",","s","i","g",":">>}
        k == CHOOSE j \in at : \A m \in at : m <= j
        sig == Atoi(SubSeq(val, k + 5, Len(val) - 1))
        text == SubSeq(val, 7, k - 1)
        framed == /\ Len(val) >= 7
                  /\ SubSeq(val, 1, 6) = <<"{","i","n","f","o",":">>
                  /\ val[Len(val)] = "}"
                  /\ at # {}
        fields == Split(SubSeq(text, 2, Len(text) - 1), ",")
        Key(f) == Split(f, ":")[1]
        Val(f) == SubSeq(f, Len(Key(f)) + 2, Len(f))
        Has(key) == \E i \in 1..Len(fields) : Key(fields[i]) = key
        Of(key) == Val(fields[CHOOSE i \in 1..Len(fields) :
                                 /\ Key(fields[i]) = key
                                 /\ \A j \in 1..Len(fields) : Key(fields[j]) = key => j <= i])
        object == /\ Len(text) >= 2
                  /\ text[1] = "{"
                  /\ text[Len(text)] = "}"
                  /\ \A i \in 1..Len(fields) : \E j \in 1..Len(fields[i]) : fields[i][j] = ":"
        typed == /\ Has(<<"i","d">>) => Atoi(Of(<<"i","d">>)).ok
                 /\ Has(<<"a","u","t","h">>) =>
                       Of(<<"a","u","t","h">>) \in {<<"t","r","u","e">>, <<"f","a","l","s","e">>}
                 /\ Has(<<"s","c","o","p","e">>) =>
                       LET a == Of(<<"s","c","o","p","e">>)
                       IN Len(a) >= 2 /\ a[1] = "[" /\ a[Len(a)] = "]"
        Info == IF text = <<"n","u","l","l">> THEN Nil
                ELSE [ID |-> IF Has(<<"i","d">>) THEN Atoi(Of(<<"i","d">>)).val ELSE 0,
                      Name |-> IF Has(<<"n","a","m","e">>) THEN Of(<<"n","a","m","e">>) ELSE <<>>,
                      Auth |-> Has(<<"a","u","t","h">>) /\ Of(<<"a","u","t","h">>) = <<"t","r","u","e">>,
                      Scope |-> IF Has(<<"s","c","o","p","e">>)
                                THEN LET a == Of(<<"s","c","o","p","e">>)
                                     IN IF Len(a) = 2 THEN <<>>
                                        ELSE Split(SubSeq(a, 2, Len(a) - 1), ";")
                                ELSE <<>>]
    IN IF ~c.present THEN [info |-> Nil, err |-> FALSE]
       ELSE IF ~b64ok THEN [info |-> Nil, err |-> TRUE]
       ELSE IF ~framed \/ ~sig.ok THEN [info |-> Nil, err |-> TRUE]
       ELSE IF text # <<"n","u","l","l">> /\ (~object \/ ~typed) THEN [info |-> Nil, err |-> TRUE]
       ELSE [info |-> Info, err |-> FALSE]

\* getTrackingCookie: the cookie "id" out of base64, json.Unmarshal into a
\* payload (an unknown key is skipped, a missing one leaves the zero value, a
\* value of the wrong type is an error), and validateTrackingCookie: the
\* payload's Sig is the hash of the JSON of its Info.
getTrackingCookie(r) ==
    LET c == r.id
        b64ok == \A i \in 1..Len(c.Value) : c.Value[i] \in 1..Len(Ascii)
        val == [i \in 1..Len(c.Value) |-> Ascii[c.Value[i]]]
        at == {k \in 1..(Len(val) - 4) : SubSeq(val, k, k + 4) = <<",","s","i","g",":">>}
        k == CHOOSE j \in at : \A m \in at : m <= j
        sig == Atoi(SubSeq(val, k + 5, Len(val) - 1))
        text == SubSeq(val, 7, k - 1)
        framed == /\ Len(val) >= 7
                  /\ SubSeq(val, 1, 6) = <<"{","i","n","f","o",":">>
                  /\ val[Len(val)] = "}"
                  /\ at # {}
        fields == Split(SubSeq(text, 2, Len(text) - 1), ",")
        Key(f) == Split(f, ":")[1]
        Val(f) == SubSeq(f, Len(Key(f)) + 2, Len(f))
        Has(key) == \E i \in 1..Len(fields) : Key(fields[i]) = key
        Of(key) == Val(fields[CHOOSE i \in 1..Len(fields) :
                                 /\ Key(fields[i]) = key
                                 /\ \A j \in 1..Len(fields) : Key(fields[j]) = key => j <= i])
        object == /\ Len(text) >= 2
                  /\ text[1] = "{"
                  /\ text[Len(text)] = "}"
                  /\ \A i \in 1..Len(fields) : \E j \in 1..Len(fields[i]) : fields[i][j] = ":"
        typed == /\ Has(<<"i","d">>) => Atoi(Of(<<"i","d">>)).ok
                 /\ Has(<<"a","u","t","h">>) =>
                       Of(<<"a","u","t","h">>) \in {<<"t","r","u","e">>, <<"f","a","l","s","e">>}
                 /\ Has(<<"s","c","o","p","e">>) =>
                       LET a == Of(<<"s","c","o","p","e">>)
                       IN Len(a) >= 2 /\ a[1] = "[" /\ a[Len(a)] = "]"
        Info == IF text = <<"n","u","l","l">> THEN Nil
                ELSE [ID |-> IF Has(<<"i","d">>) THEN Atoi(Of(<<"i","d">>)).val ELSE 0,
                      Name |-> IF Has(<<"n","a","m","e">>) THEN Of(<<"n","a","m","e">>) ELSE <<>>,
                      Auth |-> Has(<<"a","u","t","h">>) /\ Of(<<"a","u","t","h">>) = <<"t","r","u","e">>,
                      Scope |-> IF Has(<<"s","c","o","p","e">>)
                                THEN LET a == Of(<<"s","c","o","p","e">>)
                                     IN IF Len(a) = 2 THEN <<>>
                                        ELSE Split(SubSeq(a, 2, Len(a) - 1), ";")
                                ELSE <<>>]
    IN IF ~c.present THEN [info |-> Nil, err |-> FALSE]
       ELSE IF ~b64ok THEN [info |-> Nil, err |-> TRUE]
       ELSE IF ~framed \/ ~sig.ok THEN [info |-> Nil, err |-> TRUE]
       ELSE IF text # <<"n","u","l","l">> /\ (~object \/ ~typed) THEN [info |-> Nil, err |-> TRUE]
       ELSE IF sig.val # Sum64(Marshal(Info)) THEN [info |-> Nil, err |-> FALSE]
       ELSE [info |-> Info, err |-> FALSE]

\* GetTrackingInfo: the Info of a cookie that validates; else createAnonTracker
\* writes a cookie for a new anonymous Info (r.rand holds the two random
\* numbers' outcome) and nil is returned.
GetTrackingInfo(w, r) ==
    LET got == getTrackingCookie(r)
        anon == [ID |-> r.rand.ID, Name |-> r.rand.Name, Auth |-> FALSE, Scope |-> <<>>]
    IN IF ~got.err /\ got.info # Nil THEN [info |-> got.info, w |-> w]
       ELSE [info |-> Nil, w |-> createNewTracker(w, anon)]

\* ------------------------------------------------- auth: registration
maxEmailLen == 320

\* formatEmail: mail.ParseAddress and the Address of its result. An address is
\* name@domain, alone or in angle brackets after a display name.
formatEmail(email) ==
    LET open == {i \in 1..Len(email) : email[i] = "<"}
        angled == open # {} /\ email[Len(email)] = ">"
        addr == IF angled
                THEN SubSeq(email, (CHOOSE i \in open : \A j \in open : i <= j) + 1,
                            Len(email) - 1)
                ELSE email
        ats == {i \in 1..Len(addr) : addr[i] = "@"}
        ok == /\ Cardinality(ats) = 1
              /\ \A i \in ats : 1 < i /\ i < Len(addr)
              /\ \A i \in 1..Len(addr) : addr[i] \notin {" ", "<", ">", ","}
    IN IF ok THEN [addr |-> addr, err |-> FALSE] ELSE [addr |-> <<>>, err |-> TRUE]

\* A variant of validateRegistration that looks the name and the address up
\* before it checks them.
validateRegistrationLookupFirst(d, reg) ==
    LET lname == ToLower(reg.User)
        lemail == formatEmail(reg.Email)
        userExists == ~reg.dbErr /\ ~lemail.err /\ \E a \in d.auth : a.lname = lname
        emailExists == ~reg.dbErr /\ ~lemail.err /\ \E a \in d.auth : a.email = lemail.addr
        queried == IF lemail.err THEN <<>> ELSE <<"checkAlreadyExists">>
    IN IF userExists THEN [resp |-> "user name already exists", queried |-> queried]
       ELSE IF emailExists
       THEN [resp |-> "email address already exists", queried |-> queried]
       ELSE IF Len(reg.Email) > maxEmailLen \/ lemail.err
       THEN [resp |-> "invalid email address", queried |-> queried]
       ELSE IF ~checkUsername(reg.User) THEN [resp |-> "Invalid user name", queried |-> queried]
       ELSE IF ~checkPassword(reg.Pass) THEN [resp |-> "Invalid password", queried |-> queried]
       ELSE IF reg.dbErr THEN [resp |-> "internal server error", queried |-> queried]
       ELSE [resp |-> "", queried |-> queried]

\* validateRegistration: emailValid, checkUsername, checkPassword, and then
\* checkAlreadyExists, the one query on usr.auth. resp is the error body, ""
\* for nil; queried lists the statements run.
validateRegistration(d, reg) ==
    LET lname == ToLower(reg.User)
        lemail == formatEmail(reg.Email)
        userExists == ~reg.dbErr /\ \E a \in d.auth : a.lname = lname
        emailExists == ~reg.dbErr /\ \E a \in d.auth : a.email = lemail.addr
    IN IF Len(reg.Email) > maxEmailLen \/ lemail.err
       THEN [resp |-> "invalid email address", queried |-> <<>>]
       ELSE IF ~checkUsername(reg.User) THEN [resp |-> "Invalid user name", queried |-> <<>>]
       ELSE IF ~checkPassword(reg.Pass) THEN [resp |-> "Invalid password", queried |-> <<>>]
       ELSE IF userExists
       THEN [resp |-> "user name already exists", queried |-> <<"checkAlreadyExists">>]
       ELSE IF emailExists
       THEN [resp |-> "email address already exists", queried |-> <<"checkAlreadyExists">>]
       ELSE IF reg.dbErr
       THEN [resp |-> "internal server error", queried |-> <<"checkAlreadyExists">>]
       ELSE [resp |-> "", queried |-> <<"checkAlreadyExists">>]

\* register, under Auth.key = "key1": the body decoded, validateRegistration,
\* and registerUser, which hashes the password and inserts the row with the
\* roles array['user']; usr.auth refuses a row whose name, lname or email is
\* in the table. A handler that writes no status answers 200.
register(r) ==
    LET checked == validateRegistration(db, r)
        hash == generate(r.Pass, "key1", <<"g","2","t","Z">>, "n1", r.hashed)
        row == [id |-> Cardinality(db.auth) + 7, name |-> r.User, lname |-> ToLower(r.User),
                email |-> formatEmail(r.Email).addr, hash |-> hash.hash,
                roles |-> <<"user">>, last_login |-> "now"]
        refused == \E a \in db.auth :
                       a.name = row.name \/ a.lname = row.lname \/ a.email = row.email
        inserted == checked.resp = "" /\ ~hash.err /\ ~r.dbErr /\ ~refused
        status == IF ~r.decoded THEN StatusBadRequest
                  ELSE IF checked.resp # "" THEN StatusOK
                  ELSE IF ~inserted THEN StatusInternalServerError
                  ELSE StatusOK
    IN /\ ~http.served
       /\ r.route = "register"
       /\ http' = [http EXCEPT !.served = TRUE,
                               !.resp = [NewResponse EXCEPT !.status = status],
                               !.body = IF r.decoded THEN checked.resp ELSE "",
                               !.queried = IF ~r.decoded THEN <<>>
                                           ELSE IF checked.resp # "" \/ hash.err
                                           THEN checked.queried
                                           ELSE Append(checked.queried, "registerUser")]
       /\ db' = IF r.decoded /\ inserted THEN [db EXCEPT !.auth = @ \cup {row}] ELSE db
       /\ UNCHANGED <<pending, detached, pw, limVars, verifyVars>>

\* ---------------------------------------------------------- specifications
\* No Limiter constructed, no request inside limit().
InitProcess ==
    /\ limiters = <<>>
    /\ shareds = <<>>
    /\ objs = [v \in 1..MaxVisitors |-> NoVisitor]
    /\ routines = [k \in 1..MaxRoutines |-> NoRoutine]
    /\ reqs = [r \in Reqs |-> ReqInit]

\* The limiter package after one NewLimiter call.
InitLimiter ==
    /\ limiters = <<newLimiter(Settings[1])>>
    /\ shareds = setupSharedResources(<<>>, 1)
    /\ objs = [v \in 1..MaxVisitors |-> NoVisitor]
    /\ routines = [k \in 1..MaxRoutines |-> NoRoutine]
    /\ reqs = [r \in Reqs |-> ReqInit]

\* No goroutine is watched.
InitVerifyIdle ==
    /\ probe = NoRoutine
    /\ lookups = NoLookups
    /\ locks = <<>>
    /\ jobs = <<>>

NoRequest ==
    [access |-> NoCookie, refresh |-> NoCookie, id |-> FALSE, failAt |-> 0,
     trackerOK |-> TRUE]

\* The auth package serves nothing.
InitAuthIdle ==
    /\ db = [auth |-> {}, sess |-> {}]
    /\ pending = {}
    /\ http = [served |-> FALSE, access |-> "", req |-> NoRequest, resp |-> NewResponse,
               claims |-> NoClaims, success |-> FALSE]
    /\ detached = {}
    /\ pw = NoPass

Init == InitLimiter /\ InitVerifyIdle /\ InitAuthIdle

\* limit() up to its return for the request goroutines rs, without the steps
\* below.
Admit(rs) ==
    \/ \E r \in rs, L \in 1..Len(limiters), ip \in IPs \cup {""}, ua \in 1..Len(UAs) :
          limit(r, L, ip, ua)
    \/ \E r \in rs : getNewLimiter(r)
    \/ \E r \in rs : createVisitor(r)
    \/ \E r \in rs : ReserveStep(r)
    \/ \E r \in rs : visitorDelay(r)
    \/ \E r \in rs : vdAdd(r)
    \/ \E r \in rs : vdLoad(r)
    \/ \E r \in rs : vdWake(r)
    \/ \E r \in rs : vdDec(r)
    \/ \E r \in rs : Return(r)

\* limit() after visitorDelay returned ErrTooManyRequests, which takes two
\* requests delayed at once.
Reject(rs) == \E r \in rs : CancelStep(r)

\* limit() on the global limiter of a Limiter that has one.
Global(rs) ==
    \/ \E r \in rs : global(r)
    \/ \E r \in rs : globalDelay(r)

\* The daemons, the verification goroutines and time. The reverse lookups
\* succeed here and give the first or the second of Hosts; SpecVerify has the
\* failing ones and every host.
Background ==
    \/ \E s \in 1..Len(shareds) : trimVisitors(s)
    \/ \E k \in 1..MaxRoutines, h \in {1, 2} : LookupAddr(k, h)
    \/ \E k \in 1..MaxRoutines, ip2 \in IPs \cup {OtherIP, ""} : LookupIP(k, ip2)
    \/ \E k \in 1..MaxRoutines : upgradeLimit(k)
    \/ Tick

Next ==
    \/ Admit(Reqs)
    \/ Reject(Reqs)
    \/ Background

\* One Limiter without a global limiter, MaxReqs concurrent requests.
Spec == Init /\ [][Next]_allVars

\* The limiter package after NewLimiter with the settings that have a global
\* limiter.
InitGlobal ==
    /\ limiters = <<newLimiter(Settings[2])>>
    /\ shareds = setupSharedResources(<<>>, 1)
    /\ objs = [v \in 1..MaxVisitors |-> NoVisitor]
    /\ routines = [k \in 1..MaxRoutines |-> NoRoutine]
    /\ reqs = [r \in Reqs |-> ReqInit]
    /\ InitVerifyIdle
    /\ InitAuthIdle

NextGlobal ==
    \/ Admit(Reqs)
    \/ Reject(Reqs)
    \/ Global(Reqs)
    \/ Background

\* One Limiter with a global limiter, MaxReqs concurrent requests.
SpecGlobal == InitGlobal /\ [][NextGlobal]_allVars

InitMulti == InitProcess /\ InitVerifyIdle /\ InitAuthIdle

\* The Limiters are constructed in the order of Settings.
NextMulti ==
    \/ Len(limiters) < Len(Settings) /\ NewLimiter(Settings[Len(limiters) + 1])
    \/ Admit({1})
    \/ Global({1})
    \/ Background

\* Up to MaxLimiters Limiters constructed while the process runs, one request
\* at a time.
SpecMulti == InitMulti /\ [][NextMulti]_allVars

\* A verification goroutine started for a request's address and User-Agent.
InitVerify ==
    /\ InitProcess
    /\ InitAuthIdle
    /\ \E ip \in IPs, ua \in 1..Len(UAs) : probe = routine(1, ip, ua)
    /\ lookups = NoLookups
    /\ locks = <<>>
    /\ jobs = <<>>

NextVerify ==
    \/ \E h \in 0..Len(Hosts) : ProbeAddr(h)
    \/ \E ip2 \in IPs \cup {OtherIP, ""} : ProbeIP(ip2)
    \/ ProbeUpgrade

SpecVerify == InitVerify /\ [][NextVerify]_allVars

\* A request arrives at a route guarded by AuthHandler("admin", f).
InitAuth ==
    /\ InitProcess
    /\ InitVerifyIdle
    /\ db \in Databases
    /\ pending = {}
    /\ detached = {}
    /\ pw = NoPass
    /\ \E r \in Requests :
          http = [served |-> FALSE, access |-> "", req |-> r, resp |-> NewResponse,
                  claims |-> NoClaims, success |-> FALSE]

NextAuth ==
    \/ AuthHandler("admin", http.req)
    \/ \E s \in pending : updateSessionTimestamp(s)

SpecAuth == InitAuth /\ [][NextAuth]_allVars

\* A password p is stored under one value of Auth.key and a password q is
\* verified against it under the same or another one.
InitPass ==
    /\ InitProcess
    /\ InitVerifyIdle
    /\ db = [auth |-> {}, sess |-> {}]
    /\ pending = {}
    /\ detached = {}
    /\ http = [served |-> FALSE, access |-> "", req |-> NoRequest, resp |-> NewResponse,
               claims |-> NoClaims, success |-> FALSE]
    /\ \E p \in Passwords, q \in Passwords, k1 \in Keys, k2 \in Keys, salt \in Salts,
          nonce \in Nonces, hashed \in BOOLEAN :
          pw = [NoPass EXCEPT !.stage = "new", !.p = p, !.q = q, !.genKey = k1,
                              !.cmpKey = k2, !.salt = salt, !.nonce = nonce,
                              !.hashed = hashed]

NextPass ==
    \/ GenerateStep
    \/ CompareStep

SpecPass == InitPass /\ [][NextPass]_allVars

\* A request arrives at /signin or /signout.
InitSignin ==
    /\ InitProcess
    /\ InitVerifyIdle
    /\ db \in SigninDatabases
    /\ pending = {}
    /\ detached = {}
    /\ pw = NoPass
    /\ \E r \in SigninRequests :
          http = [served |-> FALSE, req |-> r, resp |-> NewResponse, queried |-> <<>>,
                  spawned |-> {}, user |-> NoUser, before |-> {}]

\* The last disjunct is the client of a successful sign-in sending its next
\* request, a sign-out with the refresh cookie it was issued, while the
\* goroutines of the sign-in may still be running.
NextSignin ==
    \/ signIn(http.req)
    \/ signOut(http.req)
    \/ \E t \in detached : signOutDetached(t)
    \/ \E t \in detached : createSessionDetached(t)
    \/ /\ http.served
       /\ http.req.route = "signin"
       /\ http.resp.status = StatusOK
       /\ \E i \in 1..Len(http.resp.cookies) :
             LET c == http.resp.cookies[i]
             IN /\ c.name = "refresh"
                /\ c.Expires = "RefreshExpire"
                /\ http' = [served |-> FALSE,
                            req |-> [route |-> "signout", decoded |-> FALSE, User |-> <<>>,
                                     Pass |-> <<>>,
                                     refresh |-> [state |-> "valid", Subject |-> c.Subject,
                                                  ID |-> c.ID, Permissions |-> c.Permissions],
                                     rand |-> 5, failAt |-> 0, trackerOK |-> TRUE,
                                     dbErr |-> FALSE],
                            resp |-> NewResponse, queried |-> <<>>, spawned |-> {},
                            user |-> http.user, before |-> {}]
       /\ UNCHANGED <<db, pending, detached, pw, limVars, verifyVars>>

SpecSignin == InitSignin /\ [][NextSignin]_allVars

\* A request to GetTrackingInfo or to POST /auth/register/. A tracking request
\* has no cookie "id", one createNewTracker wrote for origin, or such a one
\* with one of its characters replaced. A registration finds usr.auth empty or
\* holding alice01.
InitVisit ==
    /\ InitProcess
    /\ InitVerifyIdle
    /\ pending = {}
    /\ detached = {}
    /\ pw = NoPass
    /\ LET Infos == [ID : {1, 12}, Name : {<<"b","o","b">>, <<"a","1">>}, Auth : BOOLEAN,
                     Scope : {<<>>, << <<"u">> >>, << <<"u">>, <<"a","d">> >>}]
           Rand == [ID |-> 5, Name |-> <<"9","f","c","2">>]
           Written(i) == createNewTracker(NewResponse, i).cookies[1].Value
           Codes == {0, Ord["1"], Ord["2"], Ord["t"], Ord["a"], Ord[","], Ord[":"], Ord["}"]}
           Tracks ==
               {[route |-> "track", kind |-> "none", origin |-> Nil, rand |-> Rand,
                 id |-> [present |-> FALSE, Value |-> <<>>]]}
               \cup {[route |-> "track", kind |-> "written", origin |-> i, rand |-> Rand,
                      id |-> [present |-> TRUE, Value |-> Written(i)]] : i \in Infos \cup {Nil}}
               \cup UNION {
                      {[route |-> "track", kind |-> "altered", origin |-> i, rand |-> Rand,
                        id |-> [present |-> TRUE, Value |-> [Written(i) EXCEPT ![t[1]] = t[2]]]] :
                           t \in {u \in (1..Len(Written(i))) \X Codes : Written(i)[u[1]] # u[2]}} :
                      i \in {j \in Infos : j.ID = 12 /\ j.Name = <<"b","o","b">>}}
           Emails == { <<"a","@","x">>, <<"A","l"," ","<","a","@","x",">">>, <<"n","@","x">>,
                       <<"n","x">>, <<"n","@">> }
           Names == Usernames \cup {<<"A","l","i","c","e","0","1">>}
           Registers ==
               [route : {"register"}, decoded : {FALSE}, Email : {<<>>}, User : {<<>>},
                Pass : {<<>>}, dbErr : {FALSE}, hashed : {TRUE}]
               \cup [route : {"register"}, decoded : {TRUE}, Email : Emails, User : Names,
                      Pass : SigninPasswords, dbErr : BOOLEAN, hashed : BOOLEAN]
           alice == [id |-> 7, name |-> <<"a","l","i","c","e","0","1">>,
                     lname |-> <<"a","l","i","c","e","0","1">>, email |-> <<"a","@","x">>,
                     hash |-> generate(<<"S","t","r","0","n","g","!","P","a","s","s">>,
                                       "key1", <<"g","2","t","Z">>, "n1", TRUE).hash,
                     roles |-> <<"user">>, last_login |-> "earlier"]
       IN \E r \in Tracks \cup Registers, users \in {{}, {alice}} :
             /\ r.route = "track" => users = {}
             /\ db = [auth |-> users, sess |-> {}]
             /\ http = [served |-> FALSE, req |-> r, resp |-> NewResponse, info |-> Nil,
                        body |-> "", queried |-> <<>>, before |-> users]

NextVisit ==
    \/ /\ ~http.served
       /\ http.req.route = "track"
       /\ LET out == GetTrackingInfo(NewResponse, http.req)
          IN http' = [http EXCEPT !.served = TRUE, !.info = out.info, !.resp = out.w]
       /\ UNCHANGED <<db, pending, detached, pw, limVars, verifyVars>>
    \/ register(http.req)

\* One request served by GetTrackingInfo or by the register handler.
SpecVisit == InitVisit /\ [][NextVisit]_allVars

\* The process after one NewLimiter call, with four goroutines watched at
\* their lock statements: a request in getLimiter on Limiter 1 (getVisitorEntry,
\* isGoodBot, createVisitor), upgradeLimit on Limiter 1, the daemon of the first
\* sharedResources object, and a second NewLimiter call. mu holds every mutex:
\* w is Lock, r counts RLock. s is the object a goroutine read `shared` as
\* for its Lock, d the one it read for its deferred Unlock.
InitLocks ==
    /\ InitProcess
    /\ InitAuthIdle
    /\ probe = NoRoutine
    /\ lookups = NoLookups
    /\ jobs = <<>>
    /\ locks = [shared |-> 1, fatal |-> FALSE,
                gbotsmu |-> <<[w |-> FALSE, r |-> 0], [w |-> FALSE, r |-> 0]>>,
                limitersmu |-> <<[w |-> FALSE, r |-> 0], [w |-> FALSE, r |-> 0]>>,
                limiter |-> <<[w |-> FALSE, r |-> 0], [w |-> FALSE, r |-> 0]>>,
                limiters |-> << <<1>>, <<>> >>,
                g |-> [n \in {"getLimiter", "upgradeLimit", "daemon", "NewLimiter"} |->
                          [pc |-> "idle", s |-> 0, d |-> 0]]]

\* One statement of one goroutine. sync.Mutex.Lock and RWMutex.Lock wait for a
\* free mutex, RLock for no writer; Unlock and RUnlock of a mutex that is not
\* locked end the process with a fatal error.
NextLocks ==
    /\ ~locks.fatal
    /\ UNCHANGED <<limVars, probe, lookups, jobs, authVars>>
    /\ LET Free(m) == ~m.w /\ m.r = 0
           At(n, pc) == locks.g[n].pc = pc
           Go(n, pc) == [locks EXCEPT !.g[n].pc = pc]
       IN \* getLimiter: getVisitorEntry under r.Lock
          \/ /\ At("getLimiter", "idle") /\ Free(locks.limiter[1])
             /\ locks' = [Go("getLimiter", "getVisitorEntry") EXCEPT !.limiter[1].w = TRUE]
          \/ /\ At("getLimiter", "getVisitorEntry")
             /\ locks' = [Go("getLimiter", "isGoodBot") EXCEPT !.limiter[1].w = FALSE,
                                                              !.g["getLimiter"].s = locks.shared]
          \* isGoodBot: shared.gbotsmu.RLock(); defer shared.gbotsmu.RUnlock()
          \/ /\ At("getLimiter", "isGoodBot") /\ ~locks.gbotsmu[locks.g["getLimiter"].s].w
             /\ locks' = [Go("getLimiter", "defer") EXCEPT
                             !.gbotsmu[locks.g["getLimiter"].s].r = @ + 1]
          \/ /\ At("getLimiter", "defer")
             /\ locks' = [Go("getLimiter", "RUnlock") EXCEPT !.g["getLimiter"].d = locks.shared]
          \/ /\ At("getLimiter", "RUnlock")
             /\ locks' = IF locks.gbotsmu[locks.g["getLimiter"].d].r = 0
                         THEN [locks EXCEPT !.fatal = TRUE]
                         ELSE [Go("getLimiter", "createVisitor") EXCEPT
                                  !.gbotsmu[locks.g["getLimiter"].d].r = @ - 1,
                                  !.g["getLimiter"].s = 0, !.g["getLimiter"].d = 0]
          \* createVisitor under r.Lock
          \/ /\ At("getLimiter", "createVisitor") /\ Free(locks.limiter[1])
             /\ locks' = [Go("getLimiter", "created") EXCEPT !.limiter[1].w = TRUE]
          \/ /\ At("getLimiter", "created")
             /\ locks' = [Go("getLimiter", "idle") EXCEPT !.limiter[1].w = FALSE]
          \* upgradeLimit: shared.gbotsmu.Lock(); defer shared.gbotsmu.Unlock()
          \/ /\ At("upgradeLimit", "idle")
             /\ locks' = [Go("upgradeLimit", "Lock") EXCEPT !.g["upgradeLimit"].s = locks.shared]
          \/ /\ At("upgradeLimit", "Lock") /\ Free(locks.gbotsmu[locks.g["upgradeLimit"].s])
             /\ locks' = [Go("upgradeLimit", "defer") EXCEPT
                             !.gbotsmu[locks.g["upgradeLimit"].s].w = TRUE]
          \/ /\ At("upgradeLimit", "defer")
             /\ locks' = [Go("upgradeLimit", "createVisitor") EXCEPT
                             !.g["upgradeLimit"].d = locks.shared]
          \/ /\ At("upgradeLimit", "createVisitor") /\ Free(locks.limiter[1])
             /\ locks' = [Go("upgradeLimit", "created") EXCEPT !.limiter[1].w = TRUE]
          \/ /\ At("upgradeLimit", "created")
             /\ locks' = [Go("upgradeLimit", "Unlock") EXCEPT !.limiter[1].w = FALSE]
          \/ /\ At("upgradeLimit", "Unlock")
             /\ locks' = IF ~locks.gbotsmu[locks.g["upgradeLimit"].d].w
                         THEN [locks EXCEPT !.fatal = TRUE]
                         ELSE [Go("upgradeLimit", "idle") EXCEPT
                                  !.gbotsmu[locks.g["upgradeLimit"].d].w = FALSE,
                                  !.g["upgradeLimit"].s = 0, !.g["upgradeLimit"].d = 0]
          \* trimVisitors of the first object: s.limitersmu.Lock(), and trim of
          \* each listed Limiter under limiter.Lock()
          \/ /\ At("daemon", "idle") /\ Free(locks.limitersmu[1])
             /\ locks' = [Go("daemon", "trim") EXCEPT !.limitersmu[1].w = TRUE]
          \/ /\ At("daemon", "trim") /\ Free(locks.limiter[locks.limiters[1][1]])
             /\ locks' = [Go("daemon", "trimmed") EXCEPT
                             !.limiter[locks.limiters[1][1]].w = TRUE]
          \/ /\ At("daemon", "trimmed")
             /\ locks' = [Go("daemon", "Unlock") EXCEPT
                             !.limiter[locks.limiters[1][1]].w = FALSE]
          \/ /\ At("daemon", "Unlock")
             /\ locks' = [Go("daemon", "idle") EXCEPT !.limitersmu[1].w = FALSE]
          \* NewLimiter, once: setupSharedResources' once.Do, and then
          \* shared.limitersmu.Lock(); defer shared.limitersmu.Unlock()
          \/ /\ At("NewLimiter", "idle")
             /\ locks' = [Go("NewLimiter", "load") EXCEPT !.shared = 2]
          \/ /\ At("NewLimiter", "load")
             /\ locks' = [Go("NewLimiter", "Lock") EXCEPT !.g["NewLimiter"].s = locks.shared]
          \/ /\ At("NewLimiter", "Lock") /\ Free(locks.limitersmu[locks.g["NewLimiter"].s])
             /\ locks' = [Go("NewLimiter", "defer") EXCEPT
                             !.limitersmu[locks.g["NewLimiter"].s].w = TRUE]
          \/ /\ At("NewLimiter", "defer")
             /\ locks' = [Go("NewLimiter", "append") EXCEPT !.g["NewLimiter"].d = locks.shared]
          \/ /\ At("NewLimiter", "append")
             /\ locks' = [Go("NewLimiter", "Unlock") EXCEPT
                             !.limiters[locks.shared] = Append(@, 2)]
          \/ /\ At("NewLimiter", "Unlock")
             /\ locks' = IF ~locks.limitersmu[locks.g["NewLimiter"].d].w
                         THEN [locks EXCEPT !.fatal = TRUE]
                         ELSE [Go("NewLimiter", "done") EXCEPT
                                  !.limitersmu[locks.g["NewLimiter"].d].w = FALSE]

\* The lock statements of the limiter package, interleaved.
SpecLocks == InitLocks /\ [][NextLocks]_allVars

\* ------------------------------------------------------- job (part_006)
\* A variant of getJob without the query for an active exclusive run.
getJobIgnoringExclusive(j) ==
    LET eligible == {e \in 1..Len(j.entries) :
                        /\ j.entries[e].enabled
                        /\ j.due[e]
                        /\ ~\E a \in j.active : a.job_id = e /\ ~j.entries[e].multiple}
    IN IF eligible = {} THEN 0
       ELSE IF Cardinality(j.active) >= j.maxConcurrency THEN 0
       ELSE CHOOSE e \in eligible :
                \A o \in eligible : j.entries[e].priority <= j.entries[o].priority

\* getJob: nil (0) while job.active joined with job.entry has a row of an
\* exclusive job; else the enabled entry that is due (now() > last_run_ts +
\* every) and has no active run unless it allows multiple runs, first by
\* priority; nil when job.active holds maxConcurrency rows. The job goroutines
\* only delete from job.active and push last_run_ts forward, so the three
\* queries are taken as one.
getJob(j) ==
    LET eligible == {e \in 1..Len(j.entries) :
                        /\ j.entries[e].enabled
                        /\ j.due[e]
                        /\ ~\E a \in j.active : a.job_id = e /\ ~j.entries[e].multiple}
    IN IF \E a \in j.active : j.entries[a.job_id].exclusive THEN 0
       ELSE IF eligible = {} THEN 0
       ELSE IF Cardinality(j.active) >= j.maxConcurrency THEN 0
       ELSE CHOOSE e \in eligible :
                \A o \in eligible : j.entries[e].priority <= j.entries[o].priority

\* A variant of markEnded that records every run as ok.
markEndedAsOk(j, runid, jobid, reason) ==
    LET rows == {a \in j.active : a.run_id = runid}
    IN [j EXCEPT !.completed = @ \cup {[run_id |-> a.run_id, job_id |-> a.job_id,
                                        status |-> "ok"] : a \in rows},
                 !.active = @ \ rows,
                 !.due = IF reason # "abandoned" THEN [@ EXCEPT ![jobid] = FALSE] ELSE @]

\* markEnded: the batch of insert into job.completed select ... from
\* job.active where run_id = $1, delete from job.active where run_id = $1 and,
\* unless the reason is abandoned, update job.entry set last_run_ts = now().
\* The primary key of job.completed refuses a run_id it holds, which fails the
\* batch.
markEnded(j, runid, jobid, reason) ==
    LET rows == {a \in j.active : a.run_id = runid}
    IN IF \E a \in rows, c \in j.completed : c.run_id = a.run_id THEN j
       ELSE [j EXCEPT !.completed = @ \cup {[run_id |-> a.run_id, job_id |-> a.job_id,
                                             status |-> reason] : a \in rows},
                      !.active = @ \ rows,
                      !.due = IF reason # "abandoned" THEN [@ EXCEPT ![jobid] = FALSE]
                              ELSE @]

\* The manager's process before Run is called, on a schema CreateSchema has
\* just made with three entries: an exclusive job, a job that allows multiple
\* runs and a plain one, which may be disabled. outcome (what each run's
\* callback did) and atStart (the runs that were active at a call of Run) are
\* history; crashes counts the times the process has ended.
InitJobs ==
    /\ InitProcess
    /\ InitAuthIdle
    /\ probe = NoRoutine
    /\ lookups = NoLookups
    /\ locks = <<>>
    /\ \E maxConcurrency \in {1, 2}, enabled \in BOOLEAN :
          jobs = [pc |-> "down", entry |-> 0,
                  entries |-> <<[exclusive |-> TRUE, multiple |-> FALSE, enabled |-> TRUE,
                                 priority |-> 1],
                                [exclusive |-> FALSE, multiple |-> TRUE, enabled |-> TRUE,
                                 priority |-> 2],
                                [exclusive |-> FALSE, multiple |-> FALSE, enabled |-> enabled,
                                 priority |-> 3]>>,
                  maxConcurrency |-> maxConcurrency,
                  due |-> [e \in 1..3 |-> TRUE],
                  active |-> {}, completed |-> {}, seq |-> 0, g |-> {},
                  crashes |-> 0,
                  outcome |-> [k \in 1..MaxRuns |-> "none"], atStart |-> {}]

\* One step of the manager goroutine (Run and submit), of a job goroutine
\* (the go func of submit), of the clock or of the operating system.
NextJobs(who) ==
    /\ UNCHANGED <<limVars, probe, lookups, locks, authVars>>
    /\ \/ \* Run is called: markAbandoned's select of job.active
          /\ who = "manager"
          /\ jobs.pc = "down"
          /\ jobs' = [jobs EXCEPT !.pc = "markAbandoned",
                                  !.atStart = @ \cup {a.run_id : a \in jobs.active}]
       \/ \* markAbandoned: markEnded(runid, jobid, "abandoned") for a row
          /\ who = "manager"
          /\ jobs.pc = "markAbandoned"
          /\ \E a \in jobs.active :
                jobs' = markEnded(jobs, a.run_id, a.job_id, "abandoned")
       \/ \* markAbandoned returns and Run enters its loop
          /\ who = "manager"
          /\ jobs.pc = "markAbandoned"
          /\ jobs.active = {}
          /\ jobs' = [jobs EXCEPT !.pc = "getJob"]
       \/ \* submit: getJob; on nil submit returns and Run sleeps
          /\ who = "manager"
          /\ jobs.pc = "getJob"
          /\ getJob(jobs) # 0 => jobs.seq < MaxRuns
          /\ jobs' = [jobs EXCEPT !.entry = getJob(jobs),
                                  !.pc = IF getJob(jobs) = 0 THEN "sleep" ELSE "markStarted"]
       \/ \* submit: markStarted (last_run_ts = now(), insert into job.active
          \* returning run_id) and the go statement
          /\ who = "manager"
          /\ jobs.pc = "markStarted"
          /\ jobs' = [jobs EXCEPT
                        !.pc = "getJob", !.entry = 0, !.seq = @ + 1,
                        !.due[jobs.entry] = FALSE,
                        !.active = @ \cup {[run_id |-> jobs.seq + 1, job_id |-> jobs.entry]},
                        !.g = @ \cup {[run |-> jobs.seq + 1, job |-> jobs.entry,
                                       pc |-> "callback"]}]
       \/ \* Run: time.Sleep(m.interval) returns
          /\ who = "manager"
          /\ jobs.pc = "sleep"
          /\ jobs' = [jobs EXCEPT !.pc = "getJob"]
       \/ \* the callback returns nil, returns an error or panics
          /\ who = "job"
          /\ \E t \in jobs.g, out \in {"ok", "error", "panic"} :
                /\ t.pc = "callback"
                /\ jobs' = [jobs EXCEPT !.g = (@ \ {t}) \cup {[t EXCEPT !.pc = out]},
                                        !.outcome[t.run] = out]
       \/ \* markEnded with "error", with "ok", or with "panic" in the deferred
          \* function, and the goroutine ends
          /\ who = "job"
          /\ \E t \in jobs.g :
                /\ t.pc # "callback"
                /\ jobs' = [markEnded(jobs, t.run, t.job, t.pc) EXCEPT !.g = @ \ {t}]
       \/ \* time passes: an entry's interval has elapsed
          /\ who = "clock"
          /\ \E e \in DOMAIN jobs.due :
                /\ ~jobs.due[e]
                /\ jobs' = [jobs EXCEPT !.due[e] = TRUE]
       \/ \* the process ends with its goroutines; the tables stay
          /\ who = "os"
          /\ jobs.pc # "down"
          /\ jobs.crashes < MaxCrashes
          /\ jobs' = [jobs EXCEPT !.pc = "down", !.entry = 0, !.g = {},
                                  !.crashes = @ + 1]

\* The job manager over restarts of its process.
SpecJobs == InitJobs /\ [][\E who \in {"manager", "job", "clock", "os"} : NextJobs(who)]_allVars

\* The same with the scheduler's fairness: the manager goroutine and the job
\* goroutines are not starved, a callback returns or panics, and a process
\* that ended is started again.
SpecJobsLive ==
    /\ SpecJobs
    /\ WF_allVars(NextJobs("manager"))
    /\ WF_allVars(NextJobs("job"))

\* ------------------------------------------------------------ properties
\* C1 (Spec): a request whose visitor reservation has a positive delay and
\* which finds the visitor's count of delayed requests, itself included, above
\* a positive MaxDelayed never sleeps: visitorDelay gives ErrTooManyRequests,
\* and limit() returns that error after cancelling the reservation.
C1_RejectedAboveMaxDelayed ==
    \A r \in Reqs :
        LET q == reqs[r]
        IN (q.maxDelayed > 0 /\ q.curr > q.maxDelayed) =>
              /\ q.delay > 0
              /\ q.pc \in {"vdDec", "Cancel", "done"}
              /\ q.err = "ErrTooManyRequests"
              /\ ~q.slept
              /\ q.wake = 0
              /\ q.pc = "done" => (q.ret = "ErrTooManyRequests" /\ q.cancelled)

\* C1 happens: a request has returned ErrTooManyRequests with its reservation
\* cancelled, having counted more delayed requests than MaxDelayed.
C1_Witness ==
    \E r \in Reqs :
        /\ reqs[r].pc = "done"
        /\ reqs[r].ret = "ErrTooManyRequests"
        /\ reqs[r].cancelled
        /\ reqs[r].maxDelayed > 0
        /\ reqs[r].curr > reqs[r].maxDelayed

\* C2 as stated (Spec): for every address of a Limiter whose MaxDelayed M is
\* positive, at most M requests of that address sleep in visitorDelay at once.
C2_AtMostMaxDelayedPerIP ==
    \A L \in 1..Len(limiters), ip \in IPs :
        LET sleepers == {r \in Reqs : /\ reqs[r].pc = "vdSleep"
                                      /\ reqs[r].lim = L
                                      /\ reqs[r].ip = ip}
        IN \A r \in sleepers :
              reqs[r].maxDelayed > 0 => Cardinality(sleepers) <= reqs[r].maxDelayed

\* C2 amended (Spec): for every visitor object whose classification has a
\* positive MaxDelayed M, at most M requests counted on that object sleep in
\* visitorDelay at once.
C2_AtMostMaxDelayedPerVisitor ==
    \A v \in 1..MaxVisitors, L \in 1..Len(limiters) :
        LET sleepers == {r \in Reqs : /\ reqs[r].pc = "vdSleep"
                                      /\ reqs[r].lim = L
                                      /\ reqs[r].vis = v}
            M == IF objs[v].vtype = user THEN limiters[L].vars.UserRate.MaxDelayed
                 ELSE IF objs[v].vtype = goodBot THEN limiters[L].vars.GoodBotRate.MaxDelayed
                 ELSE 1
        IN (sleepers # {} /\ M > 0) => Cardinality(sleepers) <= M

\* C2 happens: M requests sleep on a visitor while a further request counted on
\* the same visitor has been refused.
C2_Witness ==
    \E v \in 1..MaxVisitors, r \in Reqs :
        LET sleepers == {s \in Reqs : reqs[s].pc = "vdSleep" /\ reqs[s].vis = v}
        IN /\ reqs[r].pc = "vdDec"
           /\ reqs[r].vis = v
           /\ reqs[r].err = "ErrTooManyRequests"
           /\ reqs[r].maxDelayed > 0
           /\ Cardinality(sleepers) = reqs[r].maxDelayed

\* C3 (Spec): on a visitor created in this instant, with burst B and interval
\* I, the n-th reservation has no delay while n <= B, and reservation B + 1 has
\* a delay of at least I.
C3_BurstThenInterval ==
    [][\A r \in Reqs :
          (reqs[r].pc = "Reserve" /\ reqs'[r].pc # "Reserve") =>
             LET v == reqs[r].vlim
                 n == objs[v].nres + 1
                 rate == IF objs[v].vtype = goodBot
                         THEN limiters[reqs[r].lim].vars.GoodBotRate
                         ELSE limiters[reqs[r].lim].vars.UserRate
             IN (objs[v].nres < MaxSeq /\ objs[v].vtype \in {user, goodBot}) =>
                   /\ n <= rate.Burst => reqs'[r].delay = 0
                   /\ n = rate.Burst + 1 => reqs'[r].delay >= rate.Interval
      ]_allVars

\* C3 happens: reservation B + 1 on a visitor created in this instant has been
\* taken, with a delay of at least the interval.
C3_Witness ==
    \E r \in Reqs :
        /\ reqs[r].pc = "visitorDelay"
        /\ reqs[r].vlim # 0
        /\ LET v == reqs[r].vlim
               rate == IF objs[v].vtype = goodBot
                       THEN limiters[reqs[r].lim].vars.GoodBotRate
                       ELSE limiters[reqs[r].lim].vars.UserRate
           IN /\ objs[v].nres < MaxSeq
              /\ objs[v].nres = rate.Burst + 1
              /\ rate.Interval > 0
              /\ reqs[r].delay >= rate.Interval

\* C4 as stated (Spec): a request whose visitor reservation had a positive
\* delay has, when limit() returns, either slept that delay or been refused
\* with ErrTooManyRequests and its reservation cancelled.
C4_DelayedSleepsOrIsRefused ==
    \A r \in Reqs :
        (reqs[r].pc = "done" /\ reqs[r].delay > 0) =>
            \/ reqs[r].slept
            \/ reqs[r].ret = "ErrTooManyRequests" /\ reqs[r].cancelled

\* C5 as stated (Spec): an address enters the good-bot registry only by a
\* goroutine whose User-Agent matched a signature, whose reverse host is in a
\* trusted domain and whose forward lookup gave the address back; a request
\* that arrives while its address is registered is served from a goodBot
\* visitor; a forward lookup that gives another address changes neither the
\* registry nor the visitors.
C5_PromotionOnlyVerifiedAndUsed ==
    [][/\ \A ip \in IPs :
             (~isGoodBot(ip) /\ ip \in DOMAIN shareds'[Len(shareds')].gbots) =>
                \E k \in 1..MaxRoutines :
                    /\ routines[k].pc = "upgradeLimit"
                    /\ routines[k].ip = ip
                    /\ routines[k].ip2 = ip
                    /\ routines[k].name # ""
                    /\ routines[k].host # 0
                    /\ checkHostName(Hosts[routines[k].host])
       /\ \A r \in Reqs :
             (/\ reqs[r].pc = "idle"
              /\ reqs'[r].pc = "Reserve"
              /\ isGoodBot(reqs'[r].ip)) =>
                 objs'[reqs'[r].vlim].vtype = goodBot
       /\ \A k \in 1..MaxRoutines :
             (/\ routines[k].pc = "validateIPMatchLoop"
              /\ routines'[k].pc = "none") =>
                 /\ shareds' = shareds
                 /\ limiters' = limiters
      ]_allVars

\* C6 as stated (SpecMulti): a request that arrives at any Limiter while its
\* address is in the good-bot registry is served from a goodBot visitor, also
\* where the Limiter already holds a visitor for the address.
C6_PromotedInEveryLimiter ==
    [][\A r \in Reqs, L \in 1..Len(limiters) :
          (/\ reqs[r].pc = "idle"
           /\ reqs'[r].pc = "Reserve"
           /\ reqs'[r].lim = L
           /\ isGoodBot(reqs'[r].ip)) =>
              objs'[limiters[L].visitors[reqs'[r].ip]].vtype = goodBot
      ]_allVars

\* C7 as stated (SpecVerify): a verification goroutine makes at most four
\* reverse and at most four forward lookups (one attempt and three retries).
C7_LookupsRetriedThreeTimes ==
    /\ lookups.addr <= 4
    /\ lookups.ip <= 4

\* C8 as stated (SpecMulti): the shared object is allocated once, its limiter
\* list holds every Limiter constructed, and an address in the good-bot
\* registry stays in it.
C8_SharedInitialisedOnce ==
    [][/\ Len(shareds') <= 1
       /\ \A L \in 1..Len(limiters') :
             \E i \in 1..Len(shareds'[Len(shareds')].limiters) :
                 shareds'[Len(shareds')].limiters[i] = L
       /\ shared # 0 =>
             \A ip \in DOMAIN shareds[shared].gbots :
                 ip \in DOMAIN shareds'[Len(shareds')].gbots
      ]_allVars

\* C9 (SpecAuth): when AuthHandler has claims for the request, from a valid
\* access token or from a revalidation that succeeded, and the claims lack the
\* required scope, the response is 401 without a redirect and the handler is
\* not invoked; the handler is invoked only with claims that hold the scope.
C9_ScopeDecides ==
    http.served =>
        LET held == \E i \in 1..Len(http.claims.Permissions) :
                        http.claims.Permissions[i] = http.access
        IN /\ http.req.access.state = "valid" =>
                 /\ http.success
                 /\ http.claims.Permissions = http.req.access.Permissions
                 /\ http.resp.cookies = <<>>
           /\ (http.success /\ ~held) =>
                 /\ http.resp.status = StatusUnauthorized
                 /\ http.resp.location = ""
                 /\ ~http.resp.invoked
           /\ http.resp.invoked => (http.success /\ held /\ http.resp.status = 0)

\* C9 happens: claims obtained by revalidation lack the scope and the response
\* is 401.
C9_Witness ==
    /\ http.served
    /\ http.req.access.state # "valid"
    /\ http.success
    /\ http.claims.Permissions = <<"user">>
    /\ http.access = "admin"
    /\ http.resp.status = StatusUnauthorized

C11_RotationUsesDatabaseScope ==
    LET t == http.req.refresh
        creds == Split(t.Subject, "|")
        rows == {a \in db.auth : /\ Len(creds) = 2
                                  /\ Atoi(creds[1]).ok
                                  /\ Atoi(t.ID).ok
                                  /\ a.id = Atoi(creds[1]).val
                                  /\ a.name = creds[2]
                                  /\ \E s \in db.sess : s.auth_id = a.id
                                                         /\ s.id = Atoi(t.ID).val}
        issued(n) == {i \in 1..Len(http.resp.cookies) : http.resp.cookies[i].name = n}
    IN (/\ http.served
        /\ http.req.access.state # "valid"
        /\ t.state = "valid"
        /\ rows # {}
        /\ http.req.failAt = 0
        /\ http.req.id \/ http.req.trackerOK) =>
           \A a \in rows :
              /\ \A n \in {"access", "refresh", "session"} :
                    /\ Cardinality(issued(n)) = 1
                    /\ \A i \in issued(n) : http.resp.cookies[i].Permissions = a.roles
              /\ http.success
              /\ http.claims.Permissions = a.roles
              /\ http.resp.invoked <=> slicesContains(a.roles, http.access)
              /\ ~slicesContains(a.roles, http.access) =>
                    http.resp.status = StatusUnauthorized

\* C11 happens: the refresh token carries admin, the database holds user, and
\* the request is answered 401 with three cookies of scope user.
C11_Witness ==
    /\ http.served
    /\ http.req.access.state = "absent"
    /\ http.req.refresh.state = "valid"
    /\ http.req.refresh.Permissions = <<"admin">>
    /\ \E a \in db.auth : a.roles = <<"user">>
    /\ http.resp.status = StatusUnauthorized
    /\ Len(http.resp.cookies) >= 3
    /\ \A i \in 1..Len(http.resp.cookies) : http.resp.cookies[i].Permissions = <<"user">>

\* C18 as stated (SpecAuth): the cookies a revalidation writes come in the
\* order access, refresh, session, tracker.
C18_IssuedAccessRefreshSessionTracker ==
    LET rank == [n \in {"access", "refresh", "session", "id"} |->
                    CASE n = "access" -> 1 [] n = "refresh" -> 2
                      [] n = "session" -> 3 [] n = "id" -> 4]
        cs == http.resp.cookies
    IN http.served =>
          \A i, j \in 1..Len(cs) : i < j => rank[cs[i].name] < rank[cs[j].name]

\* C20 (Spec): a request whose address has no entry in the Limiter's visitor
\* map consults the registries: it takes the type goodBot when the address is
\* in the good-bot registry, else badBot when it is in the bad-bot registry,
\* else user; the visitor it then creates and stores under the address has
\* that type, and a verification goroutine is started only for type user.
C20_NewVisitorClassifiedByRegistry ==
    [][\A r \in Reqs :
          /\ (reqs[r].pc = "getNewLimiter" /\ reqs'[r].pc = "createVisitor") =>
                reqs'[r].typ = IF isGoodBot(reqs[r].ip) THEN goodBot
                               ELSE IF isBadBot(reqs[r].ip) THEN badBot ELSE user
          /\ (reqs[r].pc = "createVisitor" /\ reqs'[r].pc = "Reserve") =>
                /\ limiters'[reqs[r].lim].visitors[reqs[r].ip] = reqs'[r].vlim
                /\ objs'[reqs'[r].vlim].vtype = reqs[r].typ
                /\ routines' # routines => reqs[r].typ = user
      ]_allVars

\* C20 happens: an address verified earlier, whose entry was trimmed, comes
\* back and is about to get a goodBot visitor from getNewLimiter.
C20_Witness ==
    \E r \in Reqs :
        /\ reqs[r].pc = "createVisitor"
        /\ reqs[r].typ = goodBot
        /\ isGoodBot(reqs[r].ip)
        /\ reqs[r].ip \notin DOMAIN limiters[reqs[r].lim].visitors

\* C13 (SpecPass): for a password p that meets the policy, stored by generate
\* and verified under the same key, compare reports a match for q = p and
\* reports none for a q that differs from p in exactly one character.
C13_PasswordRoundTrip ==
    LET differ == {i \in 1..Len(pw.p) : pw.p[i] # pw.q[i]}
    IN (pw.stage = "compared" /\ checkPassword(pw.p) /\ pw.cmpKey = pw.genKey) =>
          /\ pw.q = pw.p => (pw.cmp.valid /\ ~pw.cmp.err)
          /\ (Len(pw.q) = Len(pw.p) /\ Cardinality(differ) = 1) => ~pw.cmp.valid

\* C13 happens: the password with a digit, letters of both cases and a
\* special character has been verified against itself and matched.
C13_Witness ==
    /\ pw.stage = "compared"
    /\ checkPassword(pw.p)
    /\ pw.cmpKey = pw.genKey
    /\ pw.q = pw.p
    /\ pw.cmp.valid

\* C19 as stated (SpecPass): every call of generate and of compare that
\* returned has run slowDown.
C19_SlowDownOnEveryPath ==
    /\ pw.stage \in {"failed", "generated", "compared"} => pw.gen.slowDown
    /\ pw.stage = "compared" => pw.cmp.slowDown

\* C12 as stated (SpecSignin): a sign-in whose credentials meet the policy is
\* answered 401 both when no user has the name and when the user exists and
\* the password is not the one registered (alice01 registered Str0ng!Pass).
C12_UnknownUserAndWrongPasswordAlike ==
    LET r == http.req
        known == \E a \in db.auth : a.name = r.User
        wrong == r.Pass # <<"S","t","r","0","n","g","!","P","a","s","s">>
    IN (/\ http.served
        /\ r.route = "signin"
        /\ r.decoded
        /\ checkUsername(r.User)
        /\ checkPassword(r.Pass)
        /\ ~r.dbErr
        /\ ~known \/ wrong) =>
           http.resp.status = StatusUnauthorized

\* C14 (SpecSignin): whatever a sign-in request carries and however it ends,
\* its response begins with the deletion of the cookies id, session, access and
\* refresh, the handler has started the goroutine that deletes the session of
\* the refresh token exactly when that token is valid, and every cookie the
\* sign-in issues comes after the four deletions.
C14_SignInSignsOutFirst ==
    LET cs == http.resp.cookies
        names == <<"id", "session", "access", "refresh">>
    IN (http.served /\ http.req.route = "signin") =>
          /\ Len(cs) >= 4
          /\ \A i \in 1..4 : cs[i].name = names[i] /\ cs[i].Expires = "Unix(0, 0)"
          /\ \A i \in 5..Len(cs) : cs[i].Expires # "Unix(0, 0)"
          /\ http.req.refresh.state = "valid" <=>
                \E t \in http.spawned :
                    /\ t.kind = "signOut"
                    /\ t.claims.Subject = http.req.refresh.Subject
                    /\ t.claims.ID = http.req.refresh.ID

\* C14 happens: a successful sign-in that carried a valid refresh token has
\* issued its cookies after the four deletions and its old session is gone.
C14_Witness ==
    /\ http.served
    /\ http.req.route = "signin"
    /\ http.req.refresh.state = "valid"
    /\ http.resp.status = StatusOK
    /\ Len(http.resp.cookies) > 4
    /\ \E s \in http.before : s.id = 3 /\ s.auth_id = 7 /\ s \notin db.sess

\* C17 (SpecSignin): the response of a sign-out is the deletion of the cookies
\* id, session, access and refresh and a redirect to /, whatever the request
\* carried; the handler starts the deleting goroutine exactly when the refresh
\* token is valid, and starts nothing else; and that goroutine, when it runs,
\* removes from usr.sess the row whose id is the token's session id and whose
\* auth_id is the user id in the token's subject, and no other row.
C17_SignOutDeletesCookiesAndRow ==
    [][/\ (http'.served /\ http'.req.route = "signout") =>
             LET cs == http'.resp.cookies
                 names == <<"id", "session", "access", "refresh">>
                 t == http'.req.refresh
             IN /\ Len(cs) = 4
                /\ \A i \in 1..4 : cs[i].name = names[i] /\ cs[i].Expires = "Unix(0, 0)"
                /\ http'.resp.status = StatusSeeOther
                /\ http'.resp.location = "/"
                /\ http'.spawned =
                      IF t.state = "valid"
                      THEN {[kind |-> "signOut", user |-> NoUser,
                             claims |-> [Subject |-> t.Subject, ID |-> t.ID,
                                         Permissions |-> t.Permissions]]}
                      ELSE {}
       /\ \A t \in detached \ detached' :
             t.kind = "signOut" =>
                LET creds == Split(t.claims.Subject, "|")
                    named(s) == /\ Len(creds) = 2
                                /\ Atoi(creds[1]).ok
                                /\ Atoi(t.claims.ID).ok
                                /\ s.auth_id = Atoi(creds[1]).val
                                /\ s.id = Atoi(t.claims.ID).val
                IN db'.sess = {s \in db.sess : ~named(s)}
      ]_allVars

\* C17 happens: alice01 signed out of session 3 while carol1 holds a session
\* with the same number; alice01's row is gone and carol1's is kept.
C17_Witness ==
    /\ http.served
    /\ http.req.route = "signout"
    /\ http.req.refresh.state = "valid"
    /\ http.req.refresh.Subject = <<"7","|","a","l","i","c","e","0","1">>
    /\ http.req.refresh.ID = <<"3">>
    /\ Cardinality(http.before) = 2
    /\ detached = {}
    /\ db.sess = {[id |-> 3, auth_id |-> 8, expires |-> "earlier"]}

C22_HostEndsWithTrustedDomain ==
    probe.pc \in {"validateIPMatchLoop", "upgradeLimit", "upgraded"} =>
        LET host == Hosts[probe.host]
        IN \E k \in 1..Len(validDomains) :
              /\ Len(validDomains[k]) <= Len(host)
              /\ SubSeq(host, Len(host) - Len(validDomains[k]) + 1, Len(host))
                    = validDomains[k]

C23_GlobalAfterVisitorNeverRejects ==
    [][\A r \in Reqs :
          LET q == reqs[r]
              n == reqs'[r]
          IN /\ (q.pc # "global" /\ n.pc = "global") =>
                   /\ q.pc \in {"Reserve", "visitorDelay", "vdDec"}
                   /\ q.err = ""
             /\ (q.pc = "Cancel" /\ n.pc # q.pc) =>
                   /\ n.pc = "done"
                   /\ n.ret = "ErrTooManyRequests"
                   /\ limiters' = limiters
             /\ (n.pc # q.pc /\ \E L \in 1..Len(limiters) : limiters'[L].global # limiters[L].global) =>
                   q.pc = "global"
             /\ (q.pc \in {"global", "globalDelay"} /\ n.pc # q.pc) =>
                   /\ n.pc \in {"globalDelay", "done"}
                   /\ n.ret = ""
      ]_allVars

\* C23 happens: one request was rejected by the per-visitor backpressure and
\* another is at the global limiter, which has given a token.
C23_Witness ==
    \E r1, r2 \in Reqs :
        /\ reqs[r1].pc = "done"
        /\ reqs[r1].ret = "ErrTooManyRequests"
        /\ reqs[r2].pc = "globalDelay"
        /\ limiters[reqs[r2].lim].global # Nil

\* C24 as stated (SpecMulti): one sweep daemon serves all Limiters: there is
\* one sharedResources object with a daemon, and the limiter list its
\* trimVisitors walks holds every Limiter constructed.
C24_OneDaemonSweepsEveryLimiter ==
    \A s \in 1..Len(shareds) :
        /\ s = 1
        /\ \A L \in 1..Len(limiters) :
              \E i \in 1..Len(shareds[s].limiters) : shareds[s].limiters[i] = L

\* C26 (Spec): a visitor object keeps its classification, burst and interval
\* for as long as it exists, and whenever a Limiter's map gets an entry for an
\* address, or another object for it, that object was not there before the
\* step, has the bucket of its classification's rate with every token in it,
\* and has no delayed request counted.
C26_VisitorRateFixedAtCreation ==
    [][/\ \A v \in 1..MaxVisitors :
             (objs[v] # NoVisitor /\ objs'[v] # NoVisitor) =>
                /\ objs'[v].vtype = objs[v].vtype
                /\ objs'[v].limiter.burst = objs[v].limiter.burst
                /\ objs'[v].limiter.limit = objs[v].limiter.limit
       /\ \A L \in 1..Len(limiters), ip \in IPs :
             LET old == limiters[L].visitors
                 new == limiters'[L].visitors
             IN (ip \in DOMAIN new /\ (ip \in DOMAIN old => new[ip] # old[ip])) =>
                   LET o == objs'[new[ip]]
                       rate == visitorRate(limiters[L].vars, o.vtype)
                   IN /\ objs[new[ip]] = NoVisitor
                      /\ o.limiter.burst = rate.Burst
                      /\ o.limiter.limit = Max(rate.Interval, 0)
                      /\ o.limiter.tokens = o.limiter.burst * o.limiter.limit
                      /\ o.currDelays = 0
      ]_allVars

\* C26 happens: an address that had a user visitor has a goodBot visitor in the
\* map while a request still holds the user object it reserved on.
C26_Witness ==
    \E r \in Reqs :
        /\ reqs[r].vlim # 0
        /\ reqs[r].ip \in DOMAIN limiters[reqs[r].lim].visitors
        /\ limiters[reqs[r].lim].visitors[reqs[r].ip] # reqs[r].vlim
        /\ objs[reqs[r].vlim].vtype = user
        /\ objs[limiters[reqs[r].lim].visitors[reqs[r].ip]].vtype = goodBot

\* C29 as stated (SpecSignin): when createTokens fails at sign-in, the response
\* is a 500 that sets none of the access, refresh, session and tracker cookies
\* of the issuance, and no createSession goroutine is started.
C29_TokenFailureLeavesNothing ==
    (/\ http.served
     /\ http.req.route = "signin"
     /\ http.user # NoUser
     /\ (http.req.failAt \in 1..3 \/ ~http.req.trackerOK)) =>
        /\ http.resp.status = StatusInternalServerError
        /\ \A i \in 1..Len(http.resp.cookies) :
              http.resp.cookies[i].Expires = "Unix(0, 0)"
        /\ \A t \in http.spawned : t.kind # "createSession"

\* C27 (SpecVisit): getTrackingCookie gives back the Info createNewTracker
\* wrote the cookie for, and whenever it gives an Info at all, the Sig in the
\* cookie is the hash of that Info's JSON: a cookie changed without a matching
\* hash yields no Info.
C27_TrackerDecodeRoundTrip ==
    (http.served /\ http.req.route = "track") =>
        LET r == http.req
            got == getTrackingCookie(r)
            val == [i \in 1..Len(r.id.Value) |-> Ascii[r.id.Value[i]]]
            colons == {i \in 1..Len(val) : val[i] = ":"}
            last == CHOOSE i \in colons : \A j \in colons : j <= i
            Sig == Number(SubSeq(val, last + 1, Len(val) - 1))
        IN /\ r.kind = "written" => got = [info |-> r.origin, err |-> FALSE]
           /\ got.info # Nil => Sig = Sum64(Marshal(got.info))
           /\ (r.kind = "altered" /\ got.info # Nil) => http.info = got.info

\* C27 happens: a cookie with one character replaced decodes and parses, its
\* Sig is not the hash of the Info it holds, and GetTrackingInfo has written a
\* new cookie.
C27_Witness ==
    /\ http.served
    /\ http.req.route = "track"
    /\ http.req.kind = "altered"
    /\ getTrackingCookie(http.req) = [info |-> Nil, err |-> FALSE]
    /\ Len(http.resp.cookies) = 1

\* C28 as stated (SpecVisit): GetTrackingInfo returns the cookie's Info and
\* writes no cookie when the cookie validates; otherwise it writes one cookie
\* "id" and returns an Info that is not authenticated.
C28_AnonymousInfoReturned ==
    (http.served /\ http.req.route = "track") =>
        LET got == getTrackingCookie(http.req)
        IN IF ~got.err /\ got.info # Nil
           THEN http.info = got.info /\ http.resp.cookies = <<>>
           ELSE /\ Len(http.resp.cookies) = 1
                /\ http.resp.cookies[1].name = "id"
                /\ http.info # Nil
                /\ ~http.info.Auth

\* C30 (SpecVisit): a registration whose address, user name or password fails
\* its check runs no statement, leaves usr.auth as it was and is answered 200
\* with the body of the first check that failed; checkAlreadyExists is the
\* first statement of any that run; and a row is inserted only after it, with
\* the roles <<"user">>, for a lowered name and an address no row had.
C30_RegistrationChecksBeforeDatabase ==
    (http.served /\ http.req.route = "register" /\ http.req.decoded) =>
        LET r == http.req
            email == formatEmail(r.Email)
            emailValid == Len(r.Email) <= maxEmailLen /\ ~email.err
            syntactic == emailValid /\ checkUsername(r.User) /\ checkPassword(r.Pass)
        IN /\ ~syntactic =>
                 /\ http.queried = <<>>
                 /\ db.auth = http.before
                 /\ http.resp.status = StatusOK
                 /\ http.body = IF ~emailValid THEN "invalid email address"
                                ELSE IF ~checkUsername(r.User) THEN "Invalid user name"
                                ELSE "Invalid password"
           /\ http.queried # <<>> => syntactic /\ http.queried[1] = "checkAlreadyExists"
           /\ db.auth # http.before =>
                 /\ syntactic
                 /\ http.queried = <<"checkAlreadyExists", "registerUser">>
                 /\ \A a \in http.before :
                       a.lname # ToLower(r.User) /\ a.email # email.addr
                 /\ http.before \subseteq db.auth
                 /\ \E a \in db.auth :
                       /\ db.auth = http.before \cup {a}
                       /\ a.name = r.User
                       /\ a.roles = <<"user">>

\* C30 happens: a registration has inserted a second user beside alice01.
C30_Witness ==
    /\ http.served
    /\ http.req.route = "register"
    /\ http.before # {}
    /\ db.auth # http.before

\* C25 as stated (SpecLocks): no goroutine waits at a Lock or RLock of a
\* registry mutex that no goroutine is going to unlock: whenever one waits for
\* shared.gbotsmu, a goroutine that has locked that mutex still has its
\* Unlock of that same mutex ahead (deferred on it, or its defer statement not
\* yet run while `shared` is still that object).
C25_NoGoroutineBlockedForever ==
    \A n \in {"getLimiter", "upgradeLimit"} :
        LET g == locks.g[n]
            waits == IF n = "getLimiter"
                     THEN g.pc = "isGoodBot" /\ locks.gbotsmu[g.s].w
                     ELSE g.pc = "Lock" /\ (locks.gbotsmu[g.s].w \/ locks.gbotsmu[g.s].r > 0)
        IN (~locks.fatal /\ waits) =>
              \E m \in {"getLimiter", "upgradeLimit"} \ {n} :
                  LET h == locks.g[m]
                  IN \/ h.pc = "defer" /\ h.s = g.s /\ locks.shared = g.s
                     \/ h.pc \in {"RUnlock", "createVisitor", "created", "Unlock"} /\ h.d = g.s

\* C31 (SpecSignin): a sign-in whose stored hash is shorter than the nonce,
\* which makes decrypt panic, is answered with status 500 by handlePanic: the
\* response keeps the cookie deletions written before the panic, no token is
\* issued and no createSession goroutine is started.
C31_PanicRecoveredAs500 ==
    (/\ http.served
     /\ http.req.route = "signin"
     /\ http.req.decoded
     /\ ~http.req.dbErr
     /\ http.req.User = <<"d","a","v","e","0","1">>
     /\ checkPassword(http.req.Pass)) =>
        /\ http.resp.status = StatusInternalServerError
        /\ \A i \in 1..Len(http.resp.cookies) : http.resp.cookies[i].Expires = "Unix(0, 0)"
        /\ \A t \in http.spawned : t.kind = "signOut"

\* C31 happens: the sign-in of dave01 has panicked in decrypt after the
\* pre-emptive sign-out started its goroutine, and that goroutine has run.
C31_Witness ==
    /\ http.served
    /\ http.req.route = "signin"
    /\ http.req.User = <<"d","a","v","e","0","1">>
    /\ checkPassword(http.req.Pass)
    /\ ~http.req.dbErr
    /\ http.resp.status = StatusInternalServerError
    /\ http.spawned # {}
    /\ detached = {}

\* C32 (SpecMulti): in every Limiter NewLimiter built, each good-bot parameter
\* (Burst, Interval, MaxDelayed) that the settings left at zero equals the user
\* rate's, and no goodBot visitor has a bucket without capacity or lacks a
\* ceiling of delayed requests that the user rate has.
C32_GoodBotDefaultsToUserRate ==
    \A L \in 1..Len(limiters) : \A k \in 1..Len(Settings) :
        Settings[k].Name = limiters[L].vars.Name =>
            LET given == Settings[k]
                vars == limiters[L].vars
            IN /\ (given.GoodBotRate.Burst = 0 =>
                      vars.GoodBotRate.Burst = given.UserRate.Burst)
               /\ (given.GoodBotRate.Interval = 0 =>
                      vars.GoodBotRate.Interval = given.UserRate.Interval)
               /\ (given.GoodBotRate.MaxDelayed = 0 =>
                      vars.GoodBotRate.MaxDelayed = given.UserRate.MaxDelayed)
               /\ \A ip \in DOMAIN limiters[L].visitors :
                     LET o == objs[limiters[L].visitors[ip]]
                     IN o.vtype = goodBot =>
                           /\ o.limiter.burst > 0
                           /\ (vars.UserRate.MaxDelayed > 0 =>
                                  maxDelayedOf(vars, goodBot) > 0)

\* C33 (Spec): requests that found no visitor for their address create at most
\* one: the createVisitor of a first request never finds that the Limiter's map
\* already has an entry for the address, so no two requests of an address that
\* both arrived as first requests hold different buckets.
C33_FirstRequestsShareOneVisitor ==
    [][\A r \in Reqs :
          (reqs[r].pc = "createVisitor" /\ reqs'[r].pc = "Reserve") =>
              /\ reqs[r].ip \notin DOMAIN limiters[reqs[r].lim].visitors
              /\ \A r2 \in Reqs \ {r} :
                    (/\ reqs'[r2].pc = "Reserve"
                     /\ reqs'[r2].lim = reqs[r].lim
                     /\ reqs'[r2].ip = reqs[r].ip) =>
                        reqs'[r2].vlim = reqs'[r].vlim
      ]_allVars

\* C34 (Spec): on every visitor object currDelays is not negative and equals
\* the number of requests between visitorDelay's increment and its decrement
\* on that object, so it is 0 when no request is there, also after a refusal;
\* delayCount of an object never decreases.
C34_CurrDelaysCountsDelayed ==
    [][\A v \in 1..MaxVisitors :
          LET inside == {r \in Reqs : reqs'[r].vis = v
                                       /\ reqs'[r].pc \in {"vdLoad", "vdSleep", "vdDec"}}
          IN /\ objs'[v].currDelays >= 0
             /\ objs'[v].currDelays = Cardinality(inside)
             /\ (objs[v] # NoVisitor /\ objs'[v] # NoVisitor) =>
                    objs'[v].delayCount >= objs[v].delayCount
      ]_allVars

\* C34 happens: a request refused with ErrTooManyRequests has left visitorDelay
\* and the visitor it was counted on, which is still in the map and whose
\* delayCount has been added to, counts no delayed request.
C34_Witness ==
    \E r \in Reqs, v \in 1..MaxVisitors :
        /\ reqs[r].pc = "done"
        /\ reqs[r].ret = "ErrTooManyRequests"
        /\ objs[v] # NoVisitor
        /\ objs[v].delayCount = MaxCount
        /\ objs[v].currDelays = 0
        /\ \A r2 \in Reqs : reqs[r2].vis # v

\* C35 (SpecSignin): once a sign-out presenting a session's valid refresh
\* token has been served and every goroutine started has ended, usr.sess has no
\* row of that session, whether the session is one the database held at the
\* start or the one of the sign-in served just before.
C35_SignedOutSessionRowAbsent ==
    (/\ http.served
     /\ http.req.route = "signout"
     /\ getClaims(http.req.refresh).success
     /\ detached = {}) =>
        LET claims == getClaims(http.req.refresh).claims
            creds == Split(claims.Subject, "|")
        IN Len(creds) = 2 =>
              ~\E row \in db.sess : /\ Itoa(row.id) = claims.ID
                                    /\ Itoa(row.auth_id) = creds[1]

C37_ExclusiveRunBlocksSubmit ==
    [][LET busy == \E a \in jobs.active : jobs.entries[a.job_id].exclusive
       IN busy =>
             /\ getJob(jobs) = 0
             /\ jobs'.active \subseteq jobs.active
             /\ jobs'.seq = jobs.seq
             /\ (jobs.pc = "getJob" /\ jobs'.pc # "down") => jobs'.pc \in {"getJob", "sleep"}
      ]_allVars

\* C37 happens: a run of the exclusive job is active, a job that allows
\* multiple runs is due, job.active has room, and submit has returned.
C37_Witness ==
    /\ \E a \in jobs.active : jobs.entries[a.job_id].exclusive
    /\ jobs.due[2]
    /\ Cardinality(jobs.active) < jobs.maxConcurrency
    /\ jobs.seq < MaxRuns
    /\ jobs.pc = "sleep"

====
